---- MODULE Spec2Model ----
(***************************************************************************)
(* Activation offload engine of transformer_engine/pytorch/cpu_offload.py: *)
(* the asynchronous double-buffered group offload handler, the group       *)
(* commit hinge, the context factory, and the composite tensor contract    *)
(* of tensor/_internal/mxfp8_tensor_base.py.                               *)
(*                                                                         *)
(* Tensors are objects on a heap (mem), composites are objects on a heap   *)
(* (comp), pinned host buffers are objects on a heap (hostmem).  The three *)
(* CUDA streams are modelled by vector clocks: cnt[s] counts the           *)
(* operations enqueued on s, vc[s][t] is the number of operations of t     *)
(* that anything enqueued on s from now on is ordered after.               *)
(***************************************************************************)
EXTENDS Integers, Sequences, FiniteSets, TLC

\* ------------------------------------------------------------------ bounds
MaxLayers == 3
MaxPlanLayers == 6
MaxPush == 2
MaxPushDeep == 3
MaxPushFactory == 1
MaxFreeOps == 6
MaxMarkTensors == 2
MaxMarkCalls == 1
MaxSaves == 1
MaxDirectCalls == 4
MaxScopeDepth == 2

\* A configuration <<num_layers, model_layers>> where the prefetch distance of
\* the window plan exceeds the depth of the double buffer.
DeepConfig == <<3, 7>>

Streams == {"cs", "d2h", "h2d"}

\* Contents of a storage that holds nothing (torch.Tensor()).
Empty == 0

\* Contents that the program does not determine: an uninitialised buffer
\* (torch.empty) or the result of a copy that races with its producer.  It is
\* equal to no tensor's contents, so it stands for every outcome of the race.
Unspecified == 0 - 1

\* ------------------------------------------------------------- dictionaries
\* A Python dict, in insertion order: a sequence of [tag, v] items.
DictHas(d, tag) == \E i \in 1..Len(d) : d[i].tag = tag

DictIdx(d, tag) == CHOOSE i \in 1..Len(d) : d[i].tag = tag

DictGet(d, tag) == d[DictIdx(d, tag)].v

\* d[tag] = v: an existing key keeps its place, a new key goes last.
DictSet(d, tag, v) ==
    IF DictHas(d, tag)
    THEN [d EXCEPT ![DictIdx(d, tag)] = [tag |-> tag, v |-> v]]
    ELSE Append(d, [tag |-> tag, v |-> v])

\* d.pop(tag, None)
DictPop(d, tag) ==
    IF DictHas(d, tag)
    THEN LET i == DictIdx(d, tag)
         IN  SubSeq(d, 1, i - 1) \o SubSeq(d, i + 1, Len(d))
    ELSE d

\* list.remove(x): removes the first occurrence
ListRemove(l, x) ==
    LET i == CHOOSE j \in 1..Len(l) : l[j] = x /\ \A k \in 1..(j - 1) : l[k] # x
    IN  SubSeq(l, 1, i - 1) \o SubSeq(l, i + 1, Len(l))

ListHas(l, x) == \E i \in 1..Len(l) : l[i] = x

Max(a, b) == IF a >= b THEN a ELSE b

\* ------------------------------------------------------------------ objects
\* A reference held in a slot, a list or a field:
\*   "t"     a device tensor, id indexes mem
\*   "tuple" the state (device, cpu_backup) of an evicted tensor, id indexes hostmem
\*   "q"     a composite (QuantizedTensorBase) object, id indexes comp
\*   "fake"  a FakeTensor / FunctionalTensor
\*   "none"  None
\*   "list"  a Python list of references (items)
Ref(k, id) == [k |-> k, id |-> id, items |-> <<>>]

None == Ref("none", 0)

ListOf(items) == [k |-> "list", id |-> 0, items |-> items]

\* torch.Tensor on the device.  val: contents; size; ao / nfc: the attributes
\* activation_offloading / needs_force_clear;
\* do_not_clear: the attribute _do_not_clear; ws / wpos: the stream and the
\* operation on it that wrote the contents.
NewTensor(val, size, ws, wpos) ==
    [val |-> val, size |-> size, ao |-> FALSE, nfc |-> FALSE,
     do_not_clear |-> FALSE, ws |-> ws, wpos |-> wpos]

\* t.data = torch.Tensor()
EmptyStorage(m, id) == [m EXCEPT ![id].val = Empty, ![id].size = 0]

\* ------------------------------------------------------------------ streams
\* s.wait_stream(t): what is enqueued on s from now on is ordered after
\* everything enqueued on t so far, and after all that t itself waits for.
WaitStream(w, s, t) ==
    [w EXCEPT !.vc[s] =
        [u \in Streams |->
            IF u = t THEN Max(@[u], w.cnt[t]) ELSE Max(@[u], w.vc[t][u])]]

\* An operation enqueued on stream s now is ordered after operation pos of ws.
OrderedAfter(w, s, ws, pos) == ws = s \/ w.vc[s][ws] >= pos

\* What an operation enqueued on stream s now reads from device tensor id.
ReadVal(w, s, id) ==
    IF OrderedAfter(w, s, w.mem[id].ws, w.mem[id].wpos)
    THEN w.mem[id].val
    ELSE Unspecified

Raise(w, e) == [w EXCEPT !.err = e]

\* ---------------------------------------------------------------- composites
\* MXFP8TensorBase: f = <<_rowwise_data, _columnwise_data, _rowwise_scale_inv,
\* _columnwise_scale_inv>>.
MXFP8Fields == 4

MXFP8PrepareForSaving(w, c) ==
    [w EXCEPT !.ret = ListOf(w.comp[c].f),
              !.comp[c].f = [i \in 1..MXFP8Fields |-> None]]

\* a restore_from_saved that returns tensors[3:]
MXFP8RestoreReturnsFromThird(w, c, tensors) ==
    IF Len(tensors) < MXFP8Fields
    THEN Raise(w, "IndexError")
    ELSE [w EXCEPT !.comp[c].f = SubSeq(tensors, 1, MXFP8Fields),
                   !.comp[c].nrestore = @ + 1,
                   !.ret = ListOf(SubSeq(tensors, MXFP8Fields, Len(tensors)))]

MXFP8RestoreFromSaved(w, c, tensors) ==
    IF Len(tensors) < MXFP8Fields
    THEN Raise(w, "IndexError")
    ELSE [w EXCEPT !.comp[c].f = SubSeq(tensors, 1, MXFP8Fields),
                   !.comp[c].nrestore = @ + 1,
                   !.ret = ListOf(SubSeq(tensors, MXFP8Fields + 1, Len(tensors)))]

MXFP8GetDataTensors(w, c) == <<w.comp[c].f[1], w.comp[c].f[2]>>

RECURSIVE ClearFields(_, _, _)
ClearFields(w, f, i) ==
    IF i > Len(f) THEN w
    ELSE ClearFields(IF f[i].k = "t"
                     THEN [w EXCEPT !.mem = EmptyStorage(@, f[i].id)]
                     ELSE w, f, i + 1)

MXFP8Clear(w, c) == ClearFields(w, w.comp[c].f, 1)

\* The Float8-like composite: f = <<_data, _scale_inv>> and the flag
\* _transpose_invalid (ti).  Its class is not part of the sources at hand.
Float8Fields == 2

Float8PrepareForSaving(w, c) ==
    [w EXCEPT !.ret = ListOf(w.comp[c].f),
              !.comp[c].f = [i \in 1..Float8Fields |-> None]]

Float8RestoreFromSaved(w, c, tensors) ==
    IF Len(tensors) < Float8Fields
    THEN Raise(w, "IndexError")
    ELSE [w EXCEPT !.comp[c].f = SubSeq(tensors, 1, Float8Fields),
                   !.comp[c].nrestore = @ + 1,
                   !.ret = ListOf(SubSeq(tensors, Float8Fields + 1, Len(tensors)))]

Float8GetDataTensors(w, c) == <<w.comp[c].f[1]>>

\* clear releases the underlying storage and, with it, the cached transpose.
Float8Clear(w, c) ==
    [ClearFields(w, w.comp[c].f, 1) EXCEPT !.comp[c].ti = TRUE]

IsFloat8(w, c) == w.comp[c].cls = "Float8"

PrepareForSaving(w, c) ==
    IF IsFloat8(w, c) THEN Float8PrepareForSaving(w, c) ELSE MXFP8PrepareForSaving(w, c)

RestoreFromSaved(w, c, tensors) ==
    IF IsFloat8(w, c)
    THEN Float8RestoreFromSaved(w, c, tensors)
    ELSE MXFP8RestoreFromSaved(w, c, tensors)

GetDataTensors(w, c) ==
    IF IsFloat8(w, c) THEN Float8GetDataTensors(w, c) ELSE MXFP8GetDataTensors(w, c)

Clear(w, c) == IF IsFloat8(w, c) THEN Float8Clear(w, c) ELSE MXFP8Clear(w, c)

\* ------------------------------------------------------------------ marking
RECURSIVE MarkDataTensors(_, _, _)
MarkDataTensors(w, data_tensors, i) ==
    IF i > Len(data_tensors) THEN w
    ELSE MarkDataTensors(
            IF data_tensors[i].k # "none"
            THEN [w EXCEPT !.mem[data_tensors[i].id].ao = TRUE,
                           !.mem[data_tensors[i].id].nfc = TRUE]
            ELSE w, data_tensors, i + 1)

\* a loop body that marks every field of a composite, the scales included
MarkEveryField(w, tensor) ==
    IF tensor.k = "none" THEN w
    ELSE IF tensor.k = "t" THEN [w EXCEPT !.mem[tensor.id].ao = TRUE]
    ELSE MarkDataTensors(w, w.comp[tensor.id].f, 1)

\* the body of the loop of mark_activation_offload: None is skipped, a
\* torch.Tensor or Parameter gets activation_offloading, anything else is asked
\* for its data tensors
MarkTensor(w, tensor) ==
    IF tensor.k = "none" THEN w
    ELSE IF tensor.k = "t" THEN [w EXCEPT !.mem[tensor.id].ao = TRUE]
    ELSE IF tensor.k # "q" THEN Raise(w, "AttributeError")
    ELSE MarkDataTensors(w, GetDataTensors(w, tensor.id), 1)

RECURSIVE MarkLoop(_, _, _)
MarkLoop(w, tensors, i) ==
    IF i > Len(tensors) \/ w.err # "none" THEN w
    ELSE MarkLoop(MarkTensor(w, tensors[i]), tensors, i + 1)

\* a mark_activation_offload that looks at the debug state after the loop
MarkBeforeDebugCheck(w, tensors) ==
    LET w1 == MarkLoop(w, tensors, 1)
    IN  IF w.debug_enabled THEN Raise(w1, "RuntimeError") ELSE w1

\* mark_activation_offload(*tensors)
MarkActivationOffloadArgs(w, tensors) ==
    IF w.debug_enabled THEN Raise(w, "RuntimeError")
    ELSE MarkLoop(w, tensors, 1)

\* mark_activation_offload(tensor), for one argument
MarkActivationOffload(w, tensor) == MarkActivationOffloadArgs(w, <<tensor>>)

\* a predicate that accepts every tensor, marked or not
OffloadEveryTensor(w, t) == t.k = "t"

\* tensor_need_offloading_checker_activations of get_cpu_offload_context
TensorNeedOffloadingCheckerActivations(w, t) == t.k = "t" /\ w.mem[t.id].ao

\* a predicate that accepts no tensor
OffloadNoTensor(w, t) == FALSE

\* the default of both __init__: lambda _: True
DefaultTensorNeedOffloadingChecker(w, t) == TRUE

\* self.tensor_need_offloading_checker(t)
TensorNeedOffloadingChecker(w, t) ==
    IF w.tensor_need_offloading_checker = "activations"
    THEN TensorNeedOffloadingCheckerActivations(w, t)
    ELSE DefaultTensorNeedOffloadingChecker(w, t)

\* hasattr(tensor_buf, "needs_force_clear")
HasNeedsForceClear(w, t) == t.k = "t" /\ w.mem[t.id].nfc

\* ------------------------------------------------- window plan (__init__)
\* the plan without the remainder of num_layers / num_offload_group
LayerWindowMapNoRemainder(num_offload_group, num_layers) ==
    [i \in 1..num_offload_group |->
        ((num_layers \div num_offload_group) * i) - 1]

\* the plan with the remainder given to the last windows
LayerWindowMapLateRemainder(num_offload_group, num_layers) ==
    [i \in 1..num_offload_group |->
        LET late == i - (num_offload_group - (num_layers % num_offload_group))
        IN  ((num_layers \div num_offload_group) * i) - 1
              + (IF late > 0 THEN late ELSE 0)]

RECURSIVE LayerWindowLoop(_, _, _, _, _)
LayerWindowLoop(i, num_offload_group, num_layers, constant, map) ==
    IF i >= num_offload_group THEN map
    ELSE LET base == ((num_layers \div num_offload_group) * (i + 1)) - 1
         IN  IF i < (num_layers % num_offload_group)
             THEN LayerWindowLoop(i + 1, num_offload_group, num_layers, i + 1,
                                  Append(map, base + (i + 1)))
             ELSE LayerWindowLoop(i + 1, num_offload_group, num_layers, constant,
                                  Append(map, base + constant))

\* layer_window_map, key i kept at index i + 1
LayerWindowMap(num_offload_group, num_layers) ==
    LayerWindowLoop(0, num_offload_group, num_layers, 0, <<>>)

HasWindow(w, i) == i >= 0 /\ i < Len(w.layer_window_map)

Window(w, i) == w.layer_window_map[i + 1]

\* ------------------------------------------------------------- tensor_push
RECURSIVE PushLoop(_, _, _, _, _)
PushLoop(w, tensor_tag, tensor, tensor_list, i) ==
    IF i > Len(tensor_list) THEN w
    ELSE
    LET t == tensor_list[i]
        is_quantized_tensor == tensor.k = "q"
        w1 == [w EXCEPT !.tensor_tag_to_state =
                 IF is_quantized_tensor
                 THEN DictSet(@, tensor_tag,
                              ListOf(Append(DictGet(@, tensor_tag).items, t)))
                 ELSE DictSet(@, tensor_tag, t)]
        w2 == IF w1.current_group < w1.num_offload_group
                 /\ TensorNeedOffloadingChecker(w1, t)
              THEN IF is_quantized_tensor
                   THEN Clear([w1 EXCEPT !.tensor_tag_to_buf =
                                 DictSet(@, tensor_tag,
                                   ListOf(Append(DictGet(@, tensor_tag).items, t)))],
                              tensor.id)
                   ELSE [w1 EXCEPT !.tensor_tag_to_buf = DictSet(@, tensor_tag, t)]
              ELSE w1
    IN  PushLoop(w2, tensor_tag, tensor, tensor_list, i + 1)

\* a push that never recognises an instance it holds already
NeverRegistered(w, c) == FALSE

\* for _, value in fp8_tensor_object_map.items(): if tensor is value
IsRegistered(w, c) ==
    \E i \in 1..Len(w.fp8_tensor_object_map) : w.fp8_tensor_object_map[i].v = c

PushQuantized(w, tensor_tag, tensor) ==
    LET w1 == PrepareForSaving(w, tensor.id)
        tensor_list == w1.ret.items
        w2 == [w1 EXCEPT
                 !.tensor_tag_to_state = DictSet(@, tensor_tag, ListOf(<<>>)),
                 !.tensor_tag_to_buf = DictSet(@, tensor_tag, ListOf(<<>>)),
                 !.dereferencing_list =
                     IF IsRegistered(w1, tensor.id) THEN Append(@, tensor_tag) ELSE @,
                 !.fp8_tensor_object_map = DictSet(@, tensor_tag, tensor.id),
                 !.float8_transpose_cache_valid =
                     IF IsFloat8(w1, tensor.id)
                     THEN DictSet(@, tensor_tag, w1.comp[tensor.id].ti)
                     ELSE @]
    IN  PushLoop(w2, tensor_tag, tensor, tensor_list, 1)

\* AsyncDoubleBufferGroupOffloadHandler.tensor_push; the tag is left in ret
TensorPush(w, tensor) ==
    IF tensor.k # "fake"
    THEN LET tensor_tag == <<w.current_group, w.tensor_count_current_group>>
             w1 == [w EXCEPT !.tensor_count_current_group = @ + 1]
         IN  IF DictHas(w1.tensor_tag_to_state, tensor_tag)
             THEN Raise(w1, "AssertionError")
             ELSE [(IF tensor.k = "q"
                    THEN PushQuantized(w1, tensor_tag, tensor)
                    ELSE PushLoop(w1, tensor_tag, tensor, <<tensor>>, 1))
                   EXCEPT !.ret = tensor_tag]
    ELSE LET tensor_tag == <<0 - 1, w.torch_tensor_count>>
         IN  [w EXCEPT !.torch_tensor_count = @ + 1,
                       !.tensor_tag_to_state = DictSet(@, tensor_tag, tensor),
                       !.ret = tensor_tag]

\* -------------------------------------------------------------- tensor_pop
\* tensor._do_not_clear = True
SetDoNotClear(w, tensor) ==
    IF tensor.k = "t" THEN [w EXCEPT !.mem[tensor.id].do_not_clear = TRUE]
    ELSE IF tensor.k = "q" THEN [w EXCEPT !.comp[tensor.id].do_not_clear = TRUE]
    ELSE IF tensor.k = "fake" THEN [w EXCEPT !.fake[tensor.id].do_not_clear = TRUE]
    ELSE Raise(w, "AttributeError")

\* the list branch of tensor_pop; the composite is left in ret
PopQuantized(w, tensor_tag, tensor) ==
    LET w1 == IF ListHas(w.dereferencing_list, tensor_tag)
              THEN [w EXCEPT !.dereferencing_list = ListRemove(@, tensor_tag)]
              ELSE IF ~DictHas(w.fp8_tensor_object_map, tensor_tag)
              THEN Raise(w, "KeyError")
              ELSE RestoreFromSaved(w, DictGet(w.fp8_tensor_object_map, tensor_tag),
                                    tensor.items)
    IN  IF w1.err # "none" THEN w1
        ELSE IF ~DictHas(w1.fp8_tensor_object_map, tensor_tag)
        THEN Raise(w1, "KeyError")
        ELSE [w1 EXCEPT
                !.ret = Ref("q", DictGet(w1.fp8_tensor_object_map, tensor_tag)),
                !.fp8_tensor_object_map = DictPop(@, tensor_tag)]

\* AsyncDoubleBufferGroupOffloadHandler.tensor_pop; the tensor is left in ret
TensorPop(w, tensor_tag) ==
    IF ~DictHas(w.tensor_tag_to_state, tensor_tag)
    THEN Raise(w, "AssertionError")
    ELSE
    LET state == DictGet(w.tensor_tag_to_state, tensor_tag)
        w1 == [w EXCEPT !.tensor_tag_to_state = DictPop(@, tensor_tag),
                        !.ret = state]
        w2 == IF state.k = "list" THEN PopQuantized(w1, tensor_tag, state) ELSE w1
        w3 == IF w2.err = "none" /\ w2.double_buffering
              THEN SetDoNotClear(w2, w2.ret)
              ELSE w2
    IN  IF w3.err # "none" THEN w3
        ELSE LET w4 == [w3 EXCEPT !.tensor_tag_to_buf = DictPop(@, tensor_tag)]
             IN  IF w4.ret.k = "tuple" THEN Raise(w4, "AssertionError") ELSE w4

\* ------------------------------------------------- offload / reload primitives
\* SynchronizedGroupOffloadHandler.offload on the current stream s: a pinned
\* host buffer is allocated and the copy into it is enqueued on s.  The state
\* (device, cpu_backup) is left in ret.  tag and seen record, for the copy,
\* the tag it was made for and the clock of s when it was enqueued.
Offload(w, s, src_tensor, tensor_tag) ==
    LET pos == w.cnt[s] + 1
        cpu_backup == [val |-> ReadVal(w, s, src_tensor.id),
                       size |-> w.mem[src_tensor.id].size,
                       src |-> src_tensor.id,
                       ws |-> s, wpos |-> pos,
                       seen |-> w.vc[s], tag |-> tensor_tag]
    IN  [w EXCEPT !.hostmem = Append(@, cpu_backup),
                  !.cnt[s] = pos,
                  !.ret = Ref("tuple", Len(w.hostmem) + 1)]

\* What a copy enqueued on stream s now reads from host buffer id.
ReadHost(w, s, id) ==
    IF OrderedAfter(w, s, w.hostmem[id].ws, w.hostmem[id].wpos)
    THEN w.hostmem[id].val
    ELSE Unspecified

\* a reload that copies into whatever buffer it is given
ReloadAnySize(w, s, state, copy_buffer, tensor_tag) ==
    LET pos == w.cnt[s] + 1
        copy == [src |-> state.id, pos |-> pos, seen |-> w.vc[s], tag |-> tensor_tag]
    IN  IF copy_buffer.k = "none"
        THEN [w EXCEPT
                !.mem = Append(@, NewTensor(ReadHost(w, s, state.id),
                                            w.hostmem[state.id].size, s, pos)),
                !.cnt[s] = pos,
                !.h2dlog = @ \cup {copy},
                !.ret = Ref("t", Len(w.mem) + 1)]
        ELSE [w EXCEPT
                !.mem[copy_buffer.id].val = ReadHost(w, s, state.id),
                !.mem[copy_buffer.id].ws = s,
                !.mem[copy_buffer.id].wpos = pos,
                !.cnt[s] = pos,
                !.h2dlog = @ \cup {copy},
                !.ret = copy_buffer]

\* SynchronizedGroupOffloadHandler.reload on the current stream s; the
\* recovered tensor is left in ret.  h2dlog records each copy.
Reload(w, s, state, copy_buffer, tensor_tag) ==
    LET pos == w.cnt[s] + 1
        cpu_backup == w.hostmem[state.id]
        copy == [src |-> state.id, pos |-> pos, seen |-> w.vc[s], tag |-> tensor_tag]
    IN  IF copy_buffer.k = "none"
        THEN [w EXCEPT
                !.mem = Append(@, NewTensor(ReadHost(w, s, state.id),
                                            cpu_backup.size, s, pos)),
                !.cnt[s] = pos,
                !.h2dlog = @ \cup {copy},
                !.ret = Ref("t", Len(w.mem) + 1)]
        ELSE IF cpu_backup.size # w.mem[copy_buffer.id].size
        THEN Raise(w, "AssertionError")
        ELSE [w EXCEPT
                !.mem[copy_buffer.id].val = ReadHost(w, s, state.id),
                !.mem[copy_buffer.id].ws = s,
                !.mem[copy_buffer.id].wpos = pos,
                !.cnt[s] = pos,
                !.h2dlog = @ \cup {copy},
                !.ret = copy_buffer]

\* ------------------------------------------------------- bulk_offload_group
RECURSIVE OffloadList(_, _, _, _)
OffloadList(w, tensor_tag, tensor_list, j) ==
    IF j > Len(tensor_list) THEN w
    ELSE
    LET tensor_on_device == tensor_list[j]
        tensor_offloaded == TensorNeedOffloadingChecker(w, tensor_on_device)
        w1 == IF tensor_offloaded
              THEN Offload(w, "d2h", tensor_on_device, tensor_tag)
              ELSE w
        entry == IF tensor_offloaded THEN w1.ret ELSE tensor_on_device
    IN  OffloadList(
            [w1 EXCEPT !.tensor_tag_to_state =
                DictSet(@, tensor_tag,
                        ListOf(Append(DictGet(@, tensor_tag).items, entry)))],
            tensor_tag, tensor_list, j + 1)

RECURSIVE BulkOffloadLoop(_, _, _)
BulkOffloadLoop(w, group_to_offload, i) ==
    IF i > Len(w.tensor_tag_to_state) \/ w.err # "none" THEN w
    ELSE
    LET tensor_tag == w.tensor_tag_to_state[i].tag
        state == w.tensor_tag_to_state[i].v
    IN  IF tensor_tag[1] # group_to_offload
        THEN BulkOffloadLoop(w, group_to_offload, i + 1)
        ELSE IF state.k = "tuple"
        THEN Raise(w, "AssertionError")
        ELSE IF state.k = "list"
        THEN BulkOffloadLoop(
                OffloadList([w EXCEPT !.tensor_tag_to_state =
                                DictSet(@, tensor_tag, ListOf(<<>>))],
                            tensor_tag, state.items, 1),
                group_to_offload, i + 1)
        ELSE IF TensorNeedOffloadingChecker(w, state)
        THEN LET w1 == Offload(w, "d2h", state, tensor_tag)
             IN  BulkOffloadLoop(
                    [w1 EXCEPT !.tensor_tag_to_state = DictSet(@, tensor_tag, w1.ret)],
                    group_to_offload, i + 1)
        ELSE BulkOffloadLoop(w, group_to_offload, i + 1)

BulkOffloadGroup(w, group_to_offload) == BulkOffloadLoop(w, group_to_offload, 1)

\* ------------------------------------- synchronize_on_group_commit_forward
\* reload_double_buffer[half].append(torch.empty_like(b) if double_buffering else None)
AppendReloadBuffer(w, half, b) ==
    IF ~w.double_buffering
    THEN [w EXCEPT !.reload_double_buffer[half] = Append(@, None)]
    ELSE IF b.k # "t" THEN Raise(w, "TypeError")
    ELSE [w EXCEPT
            !.mem = Append(@, NewTensor(Unspecified, w.mem[b.id].size, "cs", 0)),
            !.reload_double_buffer[half] = Append(@, Ref("t", Len(w.mem) + 1))]

RECURSIVE AppendReloadBuffers(_, _, _, _)
AppendReloadBuffers(w, half, bufs, j) ==
    IF j > Len(bufs) \/ w.err # "none" THEN w
    ELSE AppendReloadBuffers(AppendReloadBuffer(w, half, bufs[j]), half, bufs, j + 1)

\* Creating the first copy of double buffer
RECURSIVE FirstBufferLoop(_, _)
FirstBufferLoop(w, i) ==
    IF i > Len(w.tensor_tag_to_buf) \/ w.err # "none" THEN w
    ELSE LET buf == w.tensor_tag_to_buf[i].v
         IN  FirstBufferLoop(
                IF buf.k = "list"
                THEN AppendReloadBuffers(w, 1, buf.items, 1)
                ELSE AppendReloadBuffer(w, 1, buf),
                i + 1)

\* Time to free the activation memory after usage
RECURSIVE ReleaseLoop(_, _)
ReleaseLoop(w, i) ==
    IF i > Len(w.tensor_tag_to_buf) THEN w
    ELSE
    LET tensor_tag == w.tensor_tag_to_buf[i].tag
        tensor_buf == w.tensor_tag_to_buf[i].v
    IN  IF tensor_tag[1] = w.offloaded_group_count
        THEN ReleaseLoop(
                [w EXCEPT
                    !.mem = IF HasNeedsForceClear(w, tensor_buf)
                            THEN EmptyStorage(@, tensor_buf.id)
                            ELSE @,
                    !.tensor_tag_to_buf = DictSet(@, tensor_tag, None)],
                i + 1)
        ELSE ReleaseLoop(w, i + 1)

\* the window boundary without "current_stream().wait_stream(d2h_stream)"
WindowBoundaryForwardNoComputeWait(w) ==
    LET w1 == WaitStream(w, "d2h", "cs")
        w2 == ReleaseLoop(w1, 1)
        w3 == IF w2.offloaded_group_count < w2.num_offload_group - 1
              THEN BulkOffloadGroup(w2, w2.offloaded_group_count + 1)
              ELSE w2
    IN  IF w3.err # "none" THEN w3
        ELSE [w3 EXCEPT !.offloaded_group_count = @ + 1]

\* the window boundary without "d2h_stream.wait_stream(current_stream())"
WindowBoundaryForwardNoOffloadWait(w) ==
    LET w1 == WaitStream(w, "cs", "d2h")
        w2 == ReleaseLoop(w1, 1)
        w3 == IF w2.offloaded_group_count < w2.num_offload_group - 1
              THEN BulkOffloadGroup(w2, w2.offloaded_group_count + 1)
              ELSE w2
    IN  IF w3.err # "none" THEN w3
        ELSE [w3 EXCEPT !.offloaded_group_count = @ + 1]

\* the branch taken when layer_window_map[offloaded_group_count] == current_group
WindowBoundaryForward(w) ==
    LET w1 == WaitStream(WaitStream(w, "d2h", "cs"), "cs", "d2h")
        w2 == ReleaseLoop(w1, 1)
        w3 == IF w2.offloaded_group_count < w2.num_offload_group - 1
              THEN BulkOffloadGroup(w2, w2.offloaded_group_count + 1)
              ELSE w2
    IN  IF w3.err # "none" THEN w3
        ELSE [w3 EXCEPT !.offloaded_group_count = @ + 1]

SynchronizeOnGroupCommitForward(w, current_group) ==
    LET w1 == IF current_group = 0
              THEN LET a == WaitStream(w, "d2h", "cs")
                       b == IF ~a.double_buffer_created THEN FirstBufferLoop(a, 1) ELSE a
                   IN  IF b.err # "none" THEN b ELSE BulkOffloadGroup(b, current_group)
              ELSE w
        w2 == IF w1.err # "none" THEN w1
              ELSE IF ~HasWindow(w1, w1.offloaded_group_count)
              THEN Raise(w1, "KeyError")
              ELSE IF Window(w1, w1.offloaded_group_count) = current_group
              THEN WindowBoundaryForward(w1)
              ELSE w1
    IN  IF w2.err # "none" THEN w2
        ELSE IF ~w2.double_buffer_created /\ current_group = w2.num_layers - 1
        THEN LET c == AppendReloadBuffers(w2, 2, w2.reload_double_buffer[1], 1)
             IN  IF c.err # "none" THEN c
                 ELSE [c EXCEPT !.double_buffer_created = TRUE]
        ELSE w2

\* a forward commit that resets the tensor counter and keeps the group
BaseOnGroupCommitForwardSameGroup(w) ==
    [w EXCEPT !.tensor_count_current_group = 0]

\* SynchronizedGroupOffloadHandler.on_group_commit_forward
BaseOnGroupCommitForward(w) ==
    [w EXCEPT !.current_group = @ + 1, !.tensor_count_current_group = 0]

\* AsyncDoubleBufferGroupOffloadHandler.on_group_commit_forward
OnGroupCommitForward(w) ==
    LET w1 == SynchronizeOnGroupCommitForward(w, w.current_group)
    IN  IF w1.err # "none" THEN w1 ELSE BaseOnGroupCommitForward(w1)

\* -------------------------------------------------------- bulk_reload_group
\* reload_double_buffer[double_buffer_idx][buffer_idx] if double_buffering else
\* None; the buffer is left in ret
ReloadBuffer(w, double_buffer_idx, buffer_idx) ==
    IF ~w.double_buffering THEN [w EXCEPT !.ret = None]
    ELSE IF buffer_idx >= Len(w.reload_double_buffer[double_buffer_idx + 1])
    THEN Raise(w, "IndexError")
    ELSE [w EXCEPT !.ret = w.reload_double_buffer[double_buffer_idx + 1][buffer_idx + 1]]

\* for state_tuple in state; r = [w, buffer_idx, tensor_list]
RECURSIVE ReloadList(_, _, _, _, _)
ReloadList(r, tensor_label, double_buffer_idx, state, j) ==
    IF j > Len(state) \/ r.w.err # "none" THEN r
    ELSE
    LET state_tuple == state[j]
        w1 == ReloadBuffer(r.w, double_buffer_idx, r.buffer_idx)
    IN  IF w1.err # "none" THEN [r EXCEPT !.w = w1]
        ELSE IF state_tuple.k = "tuple"
        THEN LET w2 == Reload(w1, "h2d", state_tuple, w1.ret, tensor_label)
             IN  IF w2.err # "none" THEN [r EXCEPT !.w = w2]
                 ELSE ReloadList([w |-> w2, buffer_idx |-> r.buffer_idx + 1,
                                  tensor_list |-> Append(r.tensor_list, w2.ret)],
                                 tensor_label, double_buffer_idx, state, j + 1)
        ELSE ReloadList([r EXCEPT !.w = w1,
                                  !.tensor_list = Append(@, state_tuple)],
                        tensor_label, double_buffer_idx, state, j + 1)

\* the end of the list branch leaving the reloaded list in the slot
ReloadQuantizedKeepsList(w, tensor_label, tensor_list) ==
    IF ~DictHas(w.fp8_tensor_object_map, tensor_label) THEN Raise(w, "KeyError")
    ELSE
    LET c == DictGet(w.fp8_tensor_object_map, tensor_label)
        w1 == IF ListHas(w.dereferencing_list, tensor_label)
              THEN [w EXCEPT !.dereferencing_list = ListRemove(@, tensor_label)]
              ELSE RestoreFromSaved(w, c, tensor_list)
    IN  IF w1.err # "none" THEN w1
        ELSE [w1 EXCEPT !.tensor_tag_to_state =
                            DictSet(@, tensor_label, ListOf(tensor_list)),
                        !.fp8_tensor_object_map = DictPop(@, tensor_label)]

\* the part of the list branch that follows the walk over the elements
ReloadQuantized(w, tensor_label, tensor_list) ==
    IF ~DictHas(w.fp8_tensor_object_map, tensor_label) THEN Raise(w, "KeyError")
    ELSE
    LET c == DictGet(w.fp8_tensor_object_map, tensor_label)
        w1 == IF ListHas(w.dereferencing_list, tensor_label)
              THEN [w EXCEPT !.dereferencing_list = ListRemove(@, tensor_label)]
              ELSE RestoreFromSaved(w, c, tensor_list)
        w2 == IF w1.err # "none" \/ ~IsFloat8(w1, c) THEN w1
              ELSE IF ~DictHas(w1.float8_transpose_cache_valid, tensor_label)
              THEN Raise(w1, "KeyError")
              ELSE [w1 EXCEPT
                      !.comp[c].ti = DictGet(w1.float8_transpose_cache_valid, tensor_label),
                      !.float8_transpose_cache_valid = DictPop(@, tensor_label)]
    IN  IF w2.err # "none" THEN w2
        ELSE [w2 EXCEPT !.tensor_tag_to_state = DictSet(@, tensor_label, Ref("q", c)),
                        !.fp8_tensor_object_map = DictPop(@, tensor_label)]

\* for tensor_label, state in tensor_tag_to_state.items(); r = [w, buffer_idx]
RECURSIVE BulkReloadLoop(_, _, _)
BulkReloadLoop(r, group_to_reload, i) ==
    IF i > Len(r.w.tensor_tag_to_state) \/ r.w.err # "none" THEN r.w
    ELSE
    LET tensor_label == r.w.tensor_tag_to_state[i].tag
        state == r.w.tensor_tag_to_state[i].v
        double_buffer_idx == group_to_reload % 2
    IN  IF tensor_label[1] # group_to_reload
        THEN BulkReloadLoop(r, group_to_reload, i + 1)
        ELSE
        LET w1 == ReloadBuffer(r.w, double_buffer_idx, r.buffer_idx)
        IN  IF w1.err # "none" THEN w1
            ELSE IF state.k = "tuple"
            THEN LET w2 == Reload(w1, "h2d", state, w1.ret, tensor_label)
                 IN  IF w2.err # "none" THEN w2
                     ELSE BulkReloadLoop(
                            [w |-> [w2 EXCEPT !.tensor_tag_to_state =
                                        DictSet(@, tensor_label, w2.ret)],
                             buffer_idx |-> r.buffer_idx + 1],
                            group_to_reload, i + 1)
            ELSE IF state.k = "list"
            THEN LET l == ReloadList([w |-> w1, buffer_idx |-> r.buffer_idx,
                                      tensor_list |-> <<>>],
                                     tensor_label, double_buffer_idx, state.items, 1)
                 IN  IF l.w.err # "none" THEN l.w
                     ELSE BulkReloadLoop(
                            [w |-> ReloadQuantized(l.w, tensor_label, l.tensor_list),
                             buffer_idx |-> l.buffer_idx],
                            group_to_reload, i + 1)
            ELSE BulkReloadLoop([r EXCEPT !.w = w1], group_to_reload, i + 1)

\* bulk_reload_group; reload_calls records the call
BulkReloadGroup(w0, group_to_reload) ==
    LET w == [w0 EXCEPT !.reload_calls = Append(@, group_to_reload)]
    IN  IF ~(group_to_reload < w.num_offload_group)
        THEN Raise(w, "AssertionError")
        ELSE BulkReloadLoop([w |-> w, buffer_idx |-> 0], group_to_reload, 1)

\* -------------------------------------------------- on_group_commit_backward
\* the backward boundary without "current_stream().wait_stream(h2d_stream)"
WindowBoundaryBackwardNoComputeWait(w) ==
    LET w1 == WaitStream(w, "h2d", "cs")
        w2 == BulkReloadGroup(w1, w1.offloaded_group_count - 1)
    IN  IF w2.err # "none" THEN w2
        ELSE [w2 EXCEPT !.offloaded_group_count =
                            @ - (IF @ > 1 THEN 1 ELSE 0)]

\* the backward boundary that leaves offloaded_group_count as it is
WindowBoundaryBackwardKeepsCount(w) ==
    LET w1 == WaitStream(WaitStream(w, "h2d", "cs"), "cs", "h2d")
    IN  BulkReloadGroup(w1, w1.offloaded_group_count - 1)

\* the backward boundary that decrements offloaded_group_count down to 0
WindowBoundaryBackwardNoFloor(w) ==
    LET w1 == WaitStream(WaitStream(w, "h2d", "cs"), "cs", "h2d")
        w2 == BulkReloadGroup(w1, w1.offloaded_group_count - 1)
    IN  IF w2.err # "none" THEN w2
        ELSE [w2 EXCEPT !.offloaded_group_count = @ - 1]

\* the branch taken when layer_window_map[offloaded_group_count - 1] == current_group
WindowBoundaryBackward(w) ==
    LET w1 == WaitStream(WaitStream(w, "h2d", "cs"), "cs", "h2d")
        w2 == BulkReloadGroup(w1, w1.offloaded_group_count - 1)
    IN  IF w2.err # "none" THEN w2
        ELSE [w2 EXCEPT !.offloaded_group_count =
                            @ - (IF @ > 1 THEN 1 ELSE 0)]

\* on_group_commit_backward without the reset at the end of the backward pass
OnGroupCommitBackwardNoReset(w) ==
    LET w1 == [w EXCEPT !.current_group = @ - 1]
    IN  IF ~(w1.current_group >= 0) THEN Raise(w1, "AssertionError")
        ELSE IF ~HasWindow(w1, w1.offloaded_group_count - 1)
        THEN Raise(w1, "KeyError")
        ELSE IF Window(w1, w1.offloaded_group_count - 1) = w1.current_group
        THEN WindowBoundaryBackward(w1)
        ELSE w1

\* AsyncDoubleBufferGroupOffloadHandler.on_group_commit_backward
OnGroupCommitBackward(w) ==
    LET w1 == [w EXCEPT !.current_group = @ - 1]
    IN  IF ~(w1.current_group >= 0) THEN Raise(w1, "AssertionError")
        ELSE
        LET w2 == IF ~HasWindow(w1, w1.offloaded_group_count - 1)
                  THEN Raise(w1, "KeyError")
                  ELSE IF Window(w1, w1.offloaded_group_count - 1) = w1.current_group
                  THEN WindowBoundaryBackward(w1)
                  ELSE w1
        IN  IF w2.err # "none" THEN w2
            ELSE IF w2.current_group = 0
            THEN [WaitStream(w2, "cs", "h2d") EXCEPT !.offloaded_group_count = 0]
            ELSE w2

\* ------------------------------------------------------------------- state
VARIABLES
    args,                           \* the arguments get_cpu_offload_context was called with
    context, synchronizer,          \* what get_cpu_offload_context returned
    handler_constructed,            \* cpu_offload_handler exists
    num_offload_group, num_layers, double_buffering, layer_window_map,
    tensor_need_offloading_checker, \* "activations": the factory's predicate, "default": lambda _: True
    current_group, tensor_count_current_group, torch_tensor_count,
    tensor_tag_to_state, tensor_tag_to_buf, fp8_tensor_object_map,
    float8_transpose_cache_valid, dereferencing_list, offloaded_group_count,
    reload_double_buffer, double_buffer_created,
    mem, hostmem, comp,             \* device tensors, pinned host buffers, composites
    fake,                           \* the stray (symbolic) tensors and their attributes
    cnt, vc,                        \* the streams
    debug_enabled,                  \* TEDebugState.debug_enabled
    err, ret,                       \* the exception and the value of the last call
    h2dlog,                         \* the host-to-device copies enqueued so far
    reload_calls,                   \* the argument of each bulk_reload_group call so far
    pushed, popped,                 \* what each tensor_push was given, what each tensor_pop returned
    group_end,                      \* group -> compute operations issued when its forward commit began
    n_forward, n_backward,          \* calls of the synchronizer in forward, in backward
    push_budget,                    \* pushes the session may make
    CPUOffloadEnabled,              \* the module-level flag
    inside_context,                 \* CpuOffloadSavedTensorHook.inside_context
    saved_tensors_hooks,            \* torch's stack of default saved-tensor hook pairs
    scope_depth,                    \* with-blocks of the context entered and not yet exited
    marks,                          \* the arguments of the mark_activation_offload calls made
    saves,                          \* the prepare_for_saving / restore_from_saved calls made on composites directly
    handler_class,                  \* the class of the handler: "Async" or "Synchronized"
    last_call                       \* the last method called on the handler directly, with its argument

hvars == <<num_offload_group, num_layers, double_buffering, layer_window_map,
           tensor_need_offloading_checker,
           current_group, tensor_count_current_group, torch_tensor_count,
           tensor_tag_to_state, tensor_tag_to_buf, fp8_tensor_object_map,
           float8_transpose_cache_valid, dereferencing_list, offloaded_group_count,
           reload_double_buffer, double_buffer_created,
           mem, hostmem, comp, fake, cnt, vc, debug_enabled, err, ret, h2dlog,
           reload_calls>>

\* the hook scope and the marking calls
svars == <<CPUOffloadEnabled, inside_context, saved_tensors_hooks, scope_depth, marks,
           saves, handler_class, last_call>>

vars == <<args, context, synchronizer, handler_constructed, hvars,
          pushed, popped, group_end, n_forward, n_backward, push_budget, svars>>

\* The handler, the heaps and the streams as one record, as the operators take it.
World ==
    [num_offload_group |-> num_offload_group, num_layers |-> num_layers,
     double_buffering |-> double_buffering, layer_window_map |-> layer_window_map,
     tensor_need_offloading_checker |-> tensor_need_offloading_checker,
     current_group |-> current_group,
     tensor_count_current_group |-> tensor_count_current_group,
     torch_tensor_count |-> torch_tensor_count,
     tensor_tag_to_state |-> tensor_tag_to_state,
     tensor_tag_to_buf |-> tensor_tag_to_buf,
     fp8_tensor_object_map |-> fp8_tensor_object_map,
     float8_transpose_cache_valid |-> float8_transpose_cache_valid,
     dereferencing_list |-> dereferencing_list,
     offloaded_group_count |-> offloaded_group_count,
     reload_double_buffer |-> reload_double_buffer,
     double_buffer_created |-> double_buffer_created,
     mem |-> mem, hostmem |-> hostmem, comp |-> comp, fake |-> fake,
     cnt |-> cnt, vc |-> vc,
     debug_enabled |-> debug_enabled, err |-> err, ret |-> ret, h2dlog |-> h2dlog,
     reload_calls |-> reload_calls]

Install(w) ==
    /\ num_offload_group' = w.num_offload_group
    /\ num_layers' = w.num_layers
    /\ double_buffering' = w.double_buffering
    /\ layer_window_map' = w.layer_window_map
    /\ tensor_need_offloading_checker' = w.tensor_need_offloading_checker
    /\ current_group' = w.current_group
    /\ tensor_count_current_group' = w.tensor_count_current_group
    /\ torch_tensor_count' = w.torch_tensor_count
    /\ tensor_tag_to_state' = w.tensor_tag_to_state
    /\ tensor_tag_to_buf' = w.tensor_tag_to_buf
    /\ fp8_tensor_object_map' = w.fp8_tensor_object_map
    /\ float8_transpose_cache_valid' = w.float8_transpose_cache_valid
    /\ dereferencing_list' = w.dereferencing_list
    /\ offloaded_group_count' = w.offloaded_group_count
    /\ reload_double_buffer' = w.reload_double_buffer
    /\ double_buffer_created' = w.double_buffer_created
    /\ mem' = w.mem
    /\ hostmem' = w.hostmem
    /\ comp' = w.comp
    /\ fake' = w.fake
    /\ cnt' = w.cnt
    /\ vc' = w.vc
    /\ debug_enabled' = w.debug_enabled
    /\ err' = w.err
    /\ ret' = w.ret
    /\ h2dlog' = w.h2dlog
    /\ reload_calls' = w.reload_calls

\* ---------------------------------------------------------------- factory
\* AsyncDoubleBufferGroupOffloadHandler.__init__ (with groupid_reset), the
\* heaps empty and the streams idle
HandlerInit(num_offload_group_, num_model_group, double_buffering_) ==
    [num_offload_group |-> num_offload_group_, num_layers |-> num_model_group,
     double_buffering |-> double_buffering_,
     layer_window_map |-> LayerWindowMap(num_offload_group_, num_model_group),
     tensor_need_offloading_checker |-> "activations",
     current_group |-> 0, tensor_count_current_group |-> 0,
     torch_tensor_count |-> 0,
     tensor_tag_to_state |-> <<>>, tensor_tag_to_buf |-> <<>>,
     fp8_tensor_object_map |-> <<>>, float8_transpose_cache_valid |-> <<>>,
     dereferencing_list |-> <<>>, offloaded_group_count |-> 0,
     reload_double_buffer |-> <<<<>>, <<>>>>, double_buffer_created |-> FALSE,
     mem |-> <<>>, hostmem |-> <<>>, comp |-> <<>>, fake |-> <<>>,
     cnt |-> [s \in Streams |-> 0],
     vc |-> [s \in Streams |-> [t \in Streams |-> 0]],
     debug_enabled |-> FALSE, err |-> "none", ret |-> None, h2dlog |-> {},
     reload_calls |-> <<>>]

\* a factory that does not check that something is to be offloaded
GetCpuOffloadContextUnchecked(a) ==
    IF a.offload_weights /\ ~a.offload_activations
    THEN [err |-> "none", context |-> "nullcontext", synchronizer |-> "identity",
          handler |-> FALSE]
    ELSE [err |-> "none",
          context |-> IF a.enabled THEN "hook" ELSE "nullcontext",
          synchronizer |-> "commit", handler |-> TRUE]

\* a factory without the early return for offload_weights alone
GetCpuOffloadContextNoWeightsReturn(a) ==
    IF ~a.offload_weights /\ ~a.offload_activations
    THEN [err |-> "ValueError", context |-> "none", synchronizer |-> "none",
          handler |-> FALSE]
    ELSE [err |-> "none",
          context |-> IF a.enabled THEN "hook" ELSE "nullcontext",
          synchronizer |-> "commit", handler |-> TRUE]

\* get_cpu_offload_context: the exception, the context and the synchronizer it
\* returns, and whether it constructed a handler
GetCpuOffloadContext(a) ==
    IF ~a.offload_weights /\ ~a.offload_activations
    THEN [err |-> "ValueError", context |-> "none", synchronizer |-> "none",
          handler |-> FALSE]
    ELSE IF a.offload_weights /\ ~a.offload_activations
    THEN [err |-> "none", context |-> "nullcontext", synchronizer |-> "identity",
          handler |-> FALSE]
    ELSE [err |-> "none",
          context |-> IF a.enabled THEN "hook" ELSE "nullcontext",
          synchronizer |-> "commit", handler |-> TRUE]

\* no method has been called on the handler directly
NoCall == [name |-> "none", arg |-> None, n |-> 0]

Arguments ==
    [enabled : BOOLEAN, num_layers : 1..MaxLayers, model_layers : 1..MaxLayers,
     offload_activations : BOOLEAN, offload_weights : BOOLEAN,
     double_buffering : BOOLEAN]

\* class: the handler's class; checker: the predicate it was constructed with
InitClass(a, budget, class, checker) ==
    LET f == GetCpuOffloadContext(a)
        w == [HandlerInit(a.num_layers, a.model_layers, a.double_buffering)
                EXCEPT !.err = f.err, !.tensor_need_offloading_checker = checker]
    IN  /\ args = a
        /\ context = f.context
        /\ synchronizer = f.synchronizer
        /\ handler_constructed = f.handler
        /\ num_offload_group = w.num_offload_group
        /\ num_layers = w.num_layers
        /\ double_buffering = w.double_buffering
        /\ layer_window_map = w.layer_window_map
        /\ tensor_need_offloading_checker = w.tensor_need_offloading_checker
        /\ current_group = w.current_group
        /\ tensor_count_current_group = w.tensor_count_current_group
        /\ torch_tensor_count = w.torch_tensor_count
        /\ tensor_tag_to_state = w.tensor_tag_to_state
        /\ tensor_tag_to_buf = w.tensor_tag_to_buf
        /\ fp8_tensor_object_map = w.fp8_tensor_object_map
        /\ float8_transpose_cache_valid = w.float8_transpose_cache_valid
        /\ dereferencing_list = w.dereferencing_list
        /\ offloaded_group_count = w.offloaded_group_count
        /\ reload_double_buffer = w.reload_double_buffer
        /\ double_buffer_created = w.double_buffer_created
        /\ mem = w.mem
        /\ hostmem = w.hostmem
        /\ comp = w.comp
        /\ fake = w.fake
        /\ cnt = w.cnt
        /\ vc = w.vc
        /\ debug_enabled = w.debug_enabled
        /\ err = w.err
        /\ ret = w.ret
        /\ h2dlog = w.h2dlog
        /\ reload_calls = w.reload_calls
        /\ pushed = <<>>
        /\ popped = {}
        /\ group_end = <<>>
        /\ n_forward = 0
        /\ n_backward = 0
        /\ push_budget = budget
        /\ CPUOffloadEnabled = FALSE
        /\ inside_context = FALSE
        /\ saved_tensors_hooks = <<>>
        /\ scope_depth = 0
        /\ marks = <<>>
        /\ saves = <<>>
        /\ handler_class = class
        /\ last_call = NoCall

\* the handler get_cpu_offload_context constructs
InitWith(a, budget) == InitClass(a, budget, "Async", "activations")

\* get_cpu_offload_context(enabled=True, ...) with activations offloaded, for
\* every 1 <= num_layers <= model_layers <= MaxLayers, with and without double
\* buffering.
Init ==
    \E a \in Arguments :
        /\ a.enabled /\ a.offload_activations /\ ~a.offload_weights
        /\ a.num_layers <= a.model_layers
        /\ InitWith(a, MaxPush)

\* Every call of the factory with 1 <= num_layers <= model_layers <= MaxLayers.
InitFactory ==
    \E a \in Arguments :
        /\ a.num_layers <= a.model_layers
        /\ InitWith(a, MaxPushFactory)

\* ------------------------------------------------------------------ inputs
\* The tensors the forward pass saves.  Each is produced by one operation of
\* the compute stream; a new tensor's contents are its own id, so that no two
\* tensors of a run have equal contents.
PlainSize == 1
DataSize == 2

\* the forward pass enqueues the operation that produces the saved tensor
Compute(w) == [w EXCEPT !.cnt["cs"] = @ + 1]

\* the sizes of the fields of a new composite, 0 for a field that is None
RECURSIVE NewFields(_, _, _, _)
NewFields(w, sizes, i, f) ==
    IF i > Len(sizes) THEN [w EXCEPT !.ret = ListOf(f)]
    ELSE IF sizes[i] = 0 THEN NewFields(w, sizes, i + 1, Append(f, None))
    ELSE NewFields(
            [w EXCEPT !.mem = Append(@, NewTensor(Len(w.mem) + 1, sizes[i],
                                                  "cs", w.cnt["cs"]))],
            sizes, i + 1, Append(f, Ref("t", Len(w.mem) + 1)))

NewPlain(w, size) ==
    LET w1 == Compute(w)
    IN  [w1 EXCEPT !.mem = Append(@, NewTensor(Len(w.mem) + 1, size, "cs", w1.cnt["cs"])),
                   !.ret = Ref("t", Len(w.mem) + 1)]

NewComposite(w, cls, sizes, ti) ==
    LET w1 == NewFields(Compute(w), sizes, 1, <<>>)
    IN  [w1 EXCEPT !.comp = Append(@, [cls |-> cls, f |-> w1.ret.items, ti |-> ti,
                                       nrestore |-> 0, do_not_clear |-> FALSE]),
                   !.ret = Ref("q", Len(w.comp) + 1)]

\* a symbolic tensor (FakeTensor): it has no storage, only attributes
NewFake(w) ==
    [Compute(w) EXCEPT !.fake = Append(@, [do_not_clear |-> FALSE]),
                       !.ret = Ref("fake", Len(w.fake) + 1)]

Marked(w) == [MarkActivationOffload(w, w.ret) EXCEPT !.ret = w.ret]

PushKinds ==
    {"plain", "marked", "data", "fake", "mxfp8", "mxfp8_colwise", "float8"}

\* the tensor of each kind, left in ret
MakeTensor(w, kind) ==
    CASE kind = "plain" -> NewPlain(w, PlainSize)
      [] kind = "marked" -> Marked(NewPlain(w, PlainSize))
      \* a data tensor of a marked composite, saved on its own
      [] kind = "data" ->
            LET w1 == NewPlain(w, DataSize)
            IN  [MarkDataTensors(w1, <<w1.ret>>, 1) EXCEPT !.ret = w1.ret]
      [] kind = "fake" -> NewFake(w)
      [] kind = "mxfp8" ->
            Marked(NewComposite(w, "MXFP8", <<DataSize, DataSize, PlainSize, PlainSize>>, FALSE))
      [] kind = "mxfp8_colwise" ->
            Marked(NewComposite(w, "MXFP8", <<0, DataSize, 0, PlainSize>>, FALSE))
      \* a Float8-like composite whose transpose cache is valid
      [] kind = "float8" ->
            Marked(NewComposite(w, "Float8", <<DataSize, PlainSize>>, FALSE))

\* ------------------------------------------------------------- observation
NoneVal == 0 - 2

\* the contents an operation of the compute stream enqueued now reads
FieldVal(w, t) == IF t.k = "t" THEN ReadVal(w, "cs", t.id) ELSE NoneVal

FieldVals(w, f) == [i \in 1..Len(f) |-> FieldVal(w, f[i])]

\* what tensor_push is given
PushRecord(w, tensor_tag, tensor) ==
    [tag |-> tensor_tag, tensor |-> tensor,
     group |-> w.current_group,
     val |-> FieldVal(w, tensor),
     fields |-> IF tensor.k = "q" THEN FieldVals(w, w.comp[tensor.id].f) ELSE <<>>,
     ti |-> tensor.k = "q" /\ w.comp[tensor.id].ti,
     again |-> \E i \in 1..Len(pushed) : pushed[i].tensor = tensor]

\* what tensor_pop returns
PopRecord(w, tensor_tag) ==
    [tag |-> tensor_tag, tensor |-> w.ret,
     val |-> FieldVal(w, w.ret),
     fields |-> IF w.ret.k = "q" THEN FieldVals(w, w.comp[w.ret.id].f) ELSE <<>>,
     ti |-> w.ret.k = "q" /\ w.comp[w.ret.id].ti,
     nrestore |-> IF w.ret.k = "q" THEN w.comp[w.ret.id].nrestore ELSE 0]

\* ------------------------------------------------------------------ actions
Running == err = "none"

\* on_save_for_backward(tensor): CpuOffloadHookWithOffloadHandler hands the
\* tensor to tensor_push
OnSaveForBackward(w0) ==
    LET w1 == TensorPush(w0, w0.ret)
    IN  /\ Install(w1)
        /\ pushed' = IF w1.err = "none"
                     THEN Append(pushed, PushRecord(w0, w1.ret, w0.ret))
                     ELSE pushed
        /\ UNCHANGED <<svars, args, context, synchronizer, handler_constructed, popped,
                       group_end, n_forward, n_backward, push_budget>>

\* on_get_saved_tensor(saved_state): tensor_pop
OnGetSavedTensor(tensor_tag) ==
    LET w1 == TensorPop(World, tensor_tag)
    IN  /\ Install(w1)
        /\ popped' = IF w1.err = "none"
                     THEN popped \cup {PopRecord(w1, tensor_tag)}
                     ELSE popped
        /\ UNCHANGED <<svars, args, context, synchronizer, handler_constructed, pushed,
                       group_end, n_forward, n_backward, push_budget>>

\* GroupCommitFunction.forward
GroupCommitForward ==
    /\ Install([OnGroupCommitForward(World) EXCEPT !.ret = Ref("arg", 0)])
    /\ group_end' = DictSet(group_end, current_group, cnt["cs"])
    /\ n_forward' = n_forward + 1
    /\ UNCHANGED <<svars, args, context, synchronizer, handler_constructed, pushed, popped,
                   n_backward, push_budget>>

\* GroupCommitFunction.backward
GroupCommitBackward ==
    /\ Install([OnGroupCommitBackward(World) EXCEPT !.ret = Ref("arg", 0)])
    /\ n_backward' = n_backward + 1
    /\ UNCHANGED <<svars, args, context, synchronizer, handler_constructed, pushed, popped,
                   group_end, n_forward, push_budget>>

InForward == n_backward = 0 /\ n_forward < args.model_layers

\* the tags pushed by the forward of the layer whose group is current and not
\* popped yet
Unpacked(tensor_tag) == \E p \in popped : p.tag = tensor_tag

SavedHere ==
    {pushed[i].tag : i \in {j \in 1..Len(pushed) :
        pushed[j].group = current_group /\ ~Unpacked(pushed[j].tag)}}

LiveTags == {tensor_tag_to_state[i].tag : i \in 1..Len(tensor_tag_to_state)}

\* A layer's forward, inside the hook context, saves a new tensor.
Push ==
    /\ Running /\ context = "hook" /\ InForward
    /\ Len(pushed) < push_budget
    /\ \E kind \in PushKinds : OnSaveForBackward(MakeTensor(World, kind))

\* A layer's forward saves a composite that was saved before (the same instance).
PushAgain ==
    /\ Running /\ context = "hook" /\ InForward
    /\ Len(pushed) < push_budget
    /\ \E c \in 1..Len(comp) :
          OnSaveForBackward([Compute(World) EXCEPT !.ret = Ref("q", c)])

\* The synchronizer is called after a layer's forward.
SyncForward ==
    /\ Running /\ synchronizer = "commit" /\ InForward
    /\ GroupCommitForward

\* lambda x: x
SyncIdentity ==
    /\ Running /\ synchronizer = "identity" /\ InForward
    /\ n_forward' = n_forward + 1
    /\ ret' = Ref("arg", 0)
    /\ UNCHANGED <<svars, args, context, synchronizer, handler_constructed,
                   num_offload_group, num_layers, double_buffering, layer_window_map,
                   tensor_need_offloading_checker, current_group, tensor_count_current_group, torch_tensor_count,
                   tensor_tag_to_state, tensor_tag_to_buf, fp8_tensor_object_map,
                   float8_transpose_cache_valid, dereferencing_list,
                   offloaded_group_count, reload_double_buffer, double_buffer_created,
                   mem, hostmem, comp, fake, cnt, vc, debug_enabled, err, h2dlog,
                   reload_calls, pushed, popped, group_end, n_backward, push_budget>>

\* The backward pass reaches the hinge of a layer, the backward of the layer
\* above it having unpacked what its forward saved.
SyncBackward ==
    /\ Running /\ synchronizer = "commit"
    /\ n_forward = args.model_layers /\ n_backward < args.model_layers
    /\ SavedHere = {}
    /\ GroupCommitBackward

\* The backward of the layer whose group is current unpacks one of the tensors
\* its forward saved.
Pop ==
    /\ Running /\ context = "hook" /\ n_backward >= 1
    /\ \E tensor_tag \in SavedHere : OnGetSavedTensor(tensor_tag)

\* One forward/backward session under the hook context.
Next == Push \/ PushAgain \/ SyncForward \/ SyncBackward \/ Pop

Spec == Init /\ [][Next]_vars

\* One session under whatever the factory returned.
NextFactory == Push \/ SyncForward \/ SyncIdentity \/ SyncBackward \/ Pop

SpecFactory == InitFactory /\ [][NextFactory]_vars

\* ------------------------------------------------- the deep configuration
\* One session with DeepConfig and double buffering, every composite saved once.
InitDeep ==
    InitWith([enabled |-> TRUE, num_layers |-> DeepConfig[1],
              model_layers |-> DeepConfig[2], offload_activations |-> TRUE,
              offload_weights |-> FALSE, double_buffering |-> TRUE], MaxPushDeep)

NextDeep == Push \/ SyncForward \/ SyncBackward \/ Pop

SpecDeep == InitDeep /\ [][NextDeep]_vars

\* ------------------------------------------------------ free interleaving
\* A session whose commits come in order (the forward pass commits once per
\* layer, then the backward pass does) and whose pushes and pops come at any
\* time: a layer recomputed during the backward pass saves tensors again, and a
\* tag may be popped as soon as it exists.  MaxFreeOps calls in all.
FreeOps == Len(pushed) + Cardinality(popped) + n_forward + n_backward

\* the backward pass has not committed its last layer yet
SessionOpen == n_backward < args.model_layers

FreePush ==
    /\ Running /\ context = "hook" /\ FreeOps < MaxFreeOps /\ SessionOpen
    /\ Len(pushed) < push_budget
    /\ \E kind \in PushKinds : OnSaveForBackward(MakeTensor(World, kind))

FreeCommitForward ==
    /\ Running /\ synchronizer = "commit" /\ FreeOps < MaxFreeOps /\ InForward
    /\ GroupCommitForward

FreeCommitBackward ==
    /\ Running /\ synchronizer = "commit" /\ FreeOps < MaxFreeOps /\ SessionOpen
    /\ n_forward = args.model_layers
    /\ GroupCommitBackward

FreePop ==
    /\ Running /\ context = "hook" /\ FreeOps < MaxFreeOps
    /\ \E tensor_tag \in LiveTags : OnGetSavedTensor(tensor_tag)

NextFree == FreePush \/ FreeCommitForward \/ FreeCommitBackward \/ FreePop

SpecFree == Init /\ [][NextFree]_vars

\* ---------------------------------------------------------- the hook scope
\* the pair of callbacks CpuOffloadSavedTensorHook registers
HookPair == [pack |-> "on_save_for_backward", unpack |-> "on_get_saved_tensor"]

\* is_cpu_offload_enabled()
IsCpuOffloadEnabled == CPUOffloadEnabled

\* CpuOffloadSavedTensorHook.__enter__
HookEnter ==
    /\ CPUOffloadEnabled' = TRUE
    /\ inside_context' = TRUE
    /\ saved_tensors_hooks' = Append(saved_tensors_hooks, HookPair)

\* an __exit__ that leaves the flag and the registration as they are
HookExitKeepsAll ==
    /\ inside_context' = FALSE
    /\ UNCHANGED <<CPUOffloadEnabled, saved_tensors_hooks>>

\* CpuOffloadSavedTensorHook.__exit__(*args): the same three statements whether
\* or not an exception is passed in; it returns None, so that an exception of
\* the body propagates
HookExit ==
    /\ CPUOffloadEnabled' = FALSE
    /\ inside_context' = FALSE
    /\ saved_tensors_hooks' = SubSeq(saved_tensors_hooks, 1, Len(saved_tensors_hooks) - 1)

\* `with context:` is entered, context being what get_cpu_offload_context
\* returned; contextlib.nullcontext does nothing on entry
EnterScope ==
    /\ Running /\ context # "none" /\ scope_depth = 0
    /\ scope_depth' = scope_depth + 1
    /\ IF context = "hook" THEN HookEnter
       ELSE UNCHANGED <<CPUOffloadEnabled, inside_context, saved_tensors_hooks>>
    /\ UNCHANGED <<marks, saves, handler_class, last_call, args, context, synchronizer, handler_constructed, hvars,
                   pushed, popped, group_end, n_forward, n_backward, push_budget>>

\* the body of the with-block raises
BodyRaises ==
    /\ Running /\ scope_depth > 0
    /\ Install(Raise(World, "Exception"))
    /\ UNCHANGED <<svars, args, context, synchronizer, handler_constructed,
                   pushed, popped, group_end, n_forward, n_backward, push_budget>>

\* the with-block is left, normally or by the exception in err (raised by the
\* body or by a call on the handler made inside it)
ExitScope ==
    /\ scope_depth > 0
    /\ scope_depth' = scope_depth - 1
    /\ IF context = "hook" THEN HookExit
       ELSE UNCHANGED <<CPUOffloadEnabled, inside_context, saved_tensors_hooks>>
    /\ UNCHANGED <<marks, saves, handler_class, last_call, args, context, synchronizer, handler_constructed, hvars,
                   pushed, popped, group_end, n_forward, n_backward, push_budget>>

\* a layer's forward saves a tensor while the pair is registered
ScopedPush == saved_tensors_hooks # <<>> /\ Push

\* Every call of the factory with num_layers and model_layers in 1..MaxLayers.
InitScope == \E a \in Arguments : InitWith(a, MaxPushFactory)

\* A session in which each layer's forward runs inside `with context:`.
NextScope ==
    EnterScope \/ BodyRaises \/ ExitScope \/ ScopedPush \/ SyncForward
        \/ SyncIdentity \/ SyncBackward \/ Pop

SpecScope == InitScope /\ [][NextScope]_vars

\* `with context:` is entered inside a with-block of the hook context that has
\* not been left yet
EnterNested ==
    /\ Running /\ context = "hook"
    /\ scope_depth >= 1 /\ scope_depth < MaxScopeDepth
    /\ scope_depth' = scope_depth + 1
    /\ HookEnter
    /\ UNCHANGED <<marks, saves, handler_class, last_call, args, context, synchronizer,
                   handler_constructed, hvars, pushed, popped, group_end, n_forward,
                   n_backward, push_budget>>

\* A session whose with-blocks may be nested.
NextNested == NextScope \/ EnterNested

SpecNested == InitScope /\ [][NextNested]_vars

\* ---------------------------------------------------------------- marking
\* Tensors and composites are created unmarked, mark_activation_offload is
\* called with one or two arguments taken from them and None, and the debug
\* state may be switched on at any time.
MarkKinds == {"plain", "mxfp8", "mxfp8_colwise", "float8"}

\* a new object of each kind, not marked, left in ret
MakeUnmarked(w, kind) ==
    CASE kind = "plain" -> NewPlain(w, PlainSize)
      [] kind = "mxfp8" ->
            NewComposite(w, "MXFP8", <<DataSize, DataSize, PlainSize, PlainSize>>, FALSE)
      [] kind = "mxfp8_colwise" ->
            NewComposite(w, "MXFP8", <<0, DataSize, 0, PlainSize>>, FALSE)
      [] kind = "float8" ->
            NewComposite(w, "Float8", <<DataSize, PlainSize>>, FALSE)

Allocate ==
    /\ Running /\ marks = <<>> /\ Len(mem) < MaxMarkTensors
    /\ \E kind \in MarkKinds : Install(MakeUnmarked(World, kind))
    /\ UNCHANGED <<svars, args, context, synchronizer, handler_constructed,
                   pushed, popped, group_end, n_forward, n_backward, push_budget>>

\* TEDebugState.debug_enabled becomes True
DebugOn ==
    /\ Running /\ ~debug_enabled
    /\ Install([World EXCEPT !.debug_enabled = TRUE])
    /\ UNCHANGED <<svars, args, context, synchronizer, handler_constructed,
                   pushed, popped, group_end, n_forward, n_backward, push_budget>>

\* what mark_activation_offload may be given
MarkArgs ==
    {None} \cup {Ref("t", i) : i \in 1..Len(mem)} \cup {Ref("q", c) : c \in 1..Len(comp)}

Mark ==
    /\ Running /\ Len(marks) < MaxMarkCalls
    /\ \E tensors \in {<<a>> : a \in MarkArgs} \cup (MarkArgs \X MarkArgs) :
          LET w1 == MarkActivationOffloadArgs(World, tensors)
          IN  /\ Install(w1)
              /\ marks' = Append(marks, [tensors |-> tensors, debug |-> debug_enabled,
                                         err |-> w1.err])
    /\ UNCHANGED <<CPUOffloadEnabled, inside_context, saved_tensors_hooks, scope_depth, saves,
                   handler_class, last_call,
                   args, context, synchronizer, handler_constructed,
                   pushed, popped, group_end, n_forward, n_backward, push_budget>>

\* mark_activation_offload does not look at the handler: one configuration,
\* no tensor saved
InitMark ==
    InitWith([enabled |-> TRUE, num_layers |-> 1, model_layers |-> 1,
              offload_activations |-> TRUE, offload_weights |-> FALSE,
              double_buffering |-> FALSE], 0)

NextMark == Allocate \/ DebugOn \/ Mark

SpecMark == InitMark /\ [][NextMark]_vars

\* ------------------------------------------- prepare / restore on a composite
\* prepare_for_saving and restore_from_saved called on MXFP8 composites
\* directly: what each call was given, what it returned and the fields it left.
\* the composites whose fields are detached at the moment
Detached == {saves[k].c : k \in {j \in 1..Len(saves) : ~saves[j].restored}}

\* tensors, self = c.prepare_for_saving()
PrepareSave ==
    /\ Running /\ Len(saves) < MaxSaves
    /\ \E c \in 1..Len(comp) :
          /\ comp[c].cls = "MXFP8" /\ c \notin Detached
          /\ LET w1 == MXFP8PrepareForSaving(World, c)
             IN  /\ Install(w1)
                 /\ saves' = Append(saves,
                        [c |-> c, fields |-> comp[c].f, tensors |-> w1.ret.items,
                         detached |-> w1.comp[c].f, restored |-> FALSE,
                         extra |-> <<>>, returned |-> <<>>, attached |-> <<>>])
    /\ UNCHANGED <<CPUOffloadEnabled, inside_context, saved_tensors_hooks, scope_depth,
                   handler_class, last_call, marks, args, context, synchronizer, handler_constructed,
                   pushed, popped, group_end, n_forward, n_backward, push_budget>>

\* what may follow the composite's own tensors in the list given to
\* restore_from_saved: nothing, one element or two
ExtraElements ==
    LET elems == {None} \cup {Ref("t", i) : i \in 1..Len(mem)}
    IN  {<<>>} \cup {<<a>> : a \in elems} \cup (elems \X elems)

\* c.restore_from_saved(tensors + extra)
RestoreSaved ==
    /\ Running
    /\ \E k \in 1..Len(saves) : \E extra \in ExtraElements :
          /\ ~saves[k].restored
          /\ LET w1 == MXFP8RestoreFromSaved(World, saves[k].c, saves[k].tensors \o extra)
             IN  /\ Install(w1)
                 /\ saves' = [saves EXCEPT ![k].restored = TRUE,
                                           ![k].extra = extra,
                                           ![k].returned = w1.ret.items,
                                           ![k].attached = w1.comp[saves[k].c].f]
    /\ UNCHANGED <<CPUOffloadEnabled, inside_context, saved_tensors_hooks, scope_depth,
                   handler_class, last_call, marks, args, context, synchronizer, handler_constructed,
                   pushed, popped, group_end, n_forward, n_backward, push_budget>>

NextSave == Allocate \/ PrepareSave \/ RestoreSaved

SpecSave == InitMark /\ [][NextSave]_vars

\* ------------------------------------------------------- the window plan
\* The handler constructed for every 1 <= num_layers <= model_layers <=
\* MaxPlanLayers, with and without double buffering; the session commits every
\* layer forward and backward and saves nothing.
InitPlan ==
    \E G \in 1..MaxPlanLayers, L \in 1..MaxPlanLayers, db \in BOOLEAN :
        /\ G <= L
        /\ InitWith([enabled |-> TRUE, num_layers |-> G, model_layers |-> L,
                     offload_activations |-> TRUE, offload_weights |-> FALSE,
                     double_buffering |-> db], 0)

NextPlan == SyncForward \/ SyncBackward

SpecPlan == InitPlan /\ [][NextPlan]_vars

\* ------------------------------------------- the handlers called directly
\* SynchronizedGroupOffloadHandler.on_group_commit_backward without the assert
BaseOnGroupCommitBackwardUnchecked(w) == [w EXCEPT !.current_group = @ - 1]

\* SynchronizedGroupOffloadHandler.on_group_commit_backward
BaseOnGroupCommitBackward(w) ==
    LET w1 == [w EXCEPT !.current_group = @ - 1]
    IN  IF ~(w1.current_group >= 0) THEN Raise(w1, "AssertionError") ELSE w1

\* a tensor_push that evicts in every group
SynchronizedTensorPushAnyGroup(w, tensor) ==
    LET tensor_tag == <<w.current_group, w.tensor_count_current_group>>
        w1 == [w EXCEPT !.tensor_count_current_group = @ + 1]
    IN  IF DictHas(w1.tensor_tag_to_state, tensor_tag)
        THEN Raise(w1, "AssertionError")
        ELSE IF TensorNeedOffloadingChecker(w1, tensor)
        THEN LET w2 == Offload(w1, "cs", tensor, tensor_tag)
             IN  [w2 EXCEPT !.tensor_tag_to_state = DictSet(@, tensor_tag, w2.ret),
                            !.ret = tensor_tag]
        ELSE [w1 EXCEPT !.tensor_tag_to_state = DictSet(@, tensor_tag, tensor),
                        !.ret = tensor_tag]

\* SynchronizedGroupOffloadHandler.tensor_push; the copy is made on the
\* current (compute) stream; the tag is left in ret
SynchronizedTensorPush(w, tensor) ==
    LET tensor_tag == <<w.current_group, w.tensor_count_current_group>>
        w1 == [w EXCEPT !.tensor_count_current_group = @ + 1]
    IN  IF DictHas(w1.tensor_tag_to_state, tensor_tag)
        THEN Raise(w1, "AssertionError")
        ELSE IF w1.current_group < w1.num_offload_group
                /\ TensorNeedOffloadingChecker(w1, tensor)
        THEN LET w2 == Offload(w1, "cs", tensor, tensor_tag)
             IN  [w2 EXCEPT !.tensor_tag_to_state = DictSet(@, tensor_tag, w2.ret),
                            !.ret = tensor_tag]
        ELSE [w1 EXCEPT !.tensor_tag_to_state = DictSet(@, tensor_tag, tensor),
                        !.ret = tensor_tag]

\* SynchronizedGroupOffloadHandler.tensor_pop; the tensor is left in ret
SynchronizedTensorPop(w, tensor_tag) ==
    IF ~DictHas(w.tensor_tag_to_state, tensor_tag)
    THEN Raise(w, "AssertionError")
    ELSE
    LET state == DictGet(w.tensor_tag_to_state, tensor_tag)
        w1 == [w EXCEPT !.tensor_tag_to_state = DictPop(@, tensor_tag)]
    IN  IF state.k = "tuple"
        THEN Reload(w1, "cs", state, None, tensor_tag)
        ELSE [w1 EXCEPT !.ret = state]

\* the method of the handler's class
ClassTensorPush(w, tensor) ==
    IF handler_class = "Synchronized" THEN SynchronizedTensorPush(w, tensor)
    ELSE TensorPush(w, tensor)

ClassTensorPop(w, tensor_tag) ==
    IF handler_class = "Synchronized" THEN SynchronizedTensorPop(w, tensor_tag)
    ELSE TensorPop(w, tensor_tag)

ClassOnGroupCommitForward(w) ==
    IF handler_class = "Synchronized" THEN BaseOnGroupCommitForward(w)
    ELSE OnGroupCommitForward(w)

ClassOnGroupCommitBackward(w) ==
    IF handler_class = "Synchronized" THEN BaseOnGroupCommitBackward(w)
    ELSE OnGroupCommitBackward(w)

\* a method is called on the handler and leaves w; a call that raised ends the
\* run
DirectCall(w, name, arg) ==
    /\ Running /\ last_call.n < MaxDirectCalls
    /\ Install(w)
    /\ last_call' = [name |-> name, arg |-> arg, n |-> last_call.n + 1]
    /\ UNCHANGED <<CPUOffloadEnabled, inside_context, saved_tensors_hooks, scope_depth,
                   marks, saves, handler_class, args, context, synchronizer,
                   handler_constructed, pushed, popped, group_end, n_forward,
                   n_backward, push_budget>>

\* the plain tensors a caller hands to tensor_push
DirectKinds == {"plain", "marked", "data"}

\* the tags a caller may hand to tensor_pop, pushed or not
DirectTags == (0..1) \X (0..1)

DirectPush ==
    \E kind \in DirectKinds :
          LET w0 == MakeTensor(World, kind)
          IN  DirectCall(ClassTensorPush(w0, w0.ret), "tensor_push", w0.ret)

DirectPop ==
    \E tensor_tag \in DirectTags :
          DirectCall(ClassTensorPop(World, tensor_tag), "tensor_pop", tensor_tag)

\* SynchronizedGroupOffloadHandler.reload called with a state that offload
\* returned and with copy_buffer None or a device tensor
DirectReload ==
    \E i \in 1..Len(hostmem) :
        \E copy_buffer \in {None} \cup {Ref("t", j) : j \in 1..Len(mem)} :
            DirectCall(Reload(World, "cs", Ref("tuple", i), copy_buffer, hostmem[i].tag),
                       "reload", [state |-> Ref("tuple", i), copy_buffer |-> copy_buffer])

DirectCommitForward ==
    DirectCall(ClassOnGroupCommitForward(World), "on_group_commit_forward", None)

DirectCommitBackward ==
    DirectCall(ClassOnGroupCommitBackward(World), "on_group_commit_backward", None)

\* A handler of either class constructed by the caller, with the predicate of
\* get_cpu_offload_context or without one, for 1 <= num_offload_group <=
\* num_model_group = 2.  The fields the synchronous class does not have keep
\* the values of the constructor and are never read by its methods.
InitDirect ==
    \E class \in {"Async", "Synchronized"}, G \in 1..2,
       checker \in {"activations", "default"} :
        InitClass([enabled |-> TRUE, num_layers |-> G, model_layers |-> 2,
                   offload_activations |-> TRUE, offload_weights |-> FALSE,
                   double_buffering |-> FALSE], 0, class, checker)

NextDirect ==
    DirectPush \/ DirectPop \/ DirectReload \/ DirectCommitForward \/ DirectCommitBackward

SpecDirect == InitDirect /\ [][NextDirect]_vars

\* ------------------------------------------------------------------ claims
\* the record of the push that returned tensor_tag
PushOf(tensor_tag) ==
    pushed[CHOOSE i \in 1..Len(pushed) : pushed[i].tag = tensor_tag]

\* the pushes that were given the composite c
Pushes(c) == {i \in 1..Len(pushed) : pushed[i].tensor = Ref("q", c)}

\* the record of the first push of the instance a pop returned
FirstPushOf(tensor) ==
    pushed[CHOOSE i \in 1..Len(pushed) :
              /\ pushed[i].tensor = tensor
              /\ \A j \in 1..(i - 1) : pushed[j].tensor # tensor]

HostTags == {hostmem[i].tag : i \in 1..Len(hostmem)}

\* C1: in a session of L forward and L backward commits, every tensor_pop of
\* a tag pushed with a plain tensor, marked or not, in any group, returns a
\* tensor whose contents equal those of the tensor pushed under the tag.
C1_RoundTripIdentity ==
    \A p \in popped :
        PushOf(p.tag).tensor.k = "t" => p.val = PushOf(p.tag).val

\* C2: the composite a pop returns has been restored, once, with the entries
\* prepare_for_saving detached when the instance was pushed, position by
\* position, and its _transpose_invalid is what it was at that push.
C2_CompositeRoundTrip ==
    \A p \in popped :
        p.tensor.k = "q" =>
            /\ p.nrestore = 1
            /\ p.fields = FirstPushOf(p.tensor).fields
            /\ p.ti = FirstPushOf(p.tensor).ti

\* C3: an instance pushed under two or more tags is restored at most once,
\* exactly once when all its tags have been popped, and every pop of one of
\* its tags returns that instance.
C3_Deduplication ==
    \A c \in 1..Len(comp) :
        Cardinality(Pushes(c)) >= 2 =>
            /\ comp[c].nrestore <= 1
            /\ (\A i \in Pushes(c) : Unpacked(pushed[i].tag)) => comp[c].nrestore = 1
            /\ \A i \in Pushes(c) : \A p \in popped :
                   p.tag = pushed[i].tag => p.tensor = Ref("q", c)

\* an instance saved twice, one of the saves evicted, both tags popped
C3_Witness ==
    \E c \in 1..Len(comp) :
        /\ Cardinality(Pushes(c)) >= 2
        /\ \A i \in Pushes(c) : Unpacked(pushed[i].tag)
        /\ \E i \in Pushes(c) : pushed[i].tag \in HostTags

\* C4: when a backward commit has lowered current_group to g, every host
\* buffer of a group >= g has its host-to-device copy enqueued and the compute
\* stream waits for that copy; at current_group 0 the compute stream waits
\* for everything enqueued on the h2d stream.
C4_ReloadBeforeReverseCompute ==
    (Running /\ n_backward >= 1) =>
        /\ \A i \in 1..Len(hostmem) :
               hostmem[i].tag[1] >= current_group =>
                   \E c \in h2dlog : c.src = i /\ c.pos <= vc["cs"]["h2d"]
        /\ current_group = 0 => vc["cs"]["h2d"] = cnt["h2d"]

\* the backward pass stands at a group above 0 whose tensors were evicted and
\* reloaded
C4_Witness ==
    /\ Running /\ n_backward >= 1 /\ current_group >= 1
    /\ \E c \in h2dlog : c.tag[1] = current_group

\* C5: when a host-to-device copy is enqueued, the h2d stream is ordered
\* after the device-to-host copy that filled its source host buffer.
C5_HostWrittenBeforeRead ==
    \A c \in h2dlog :
        /\ hostmem[c.src].ws = "d2h"
        /\ c.seen["d2h"] >= hostmem[c.src].wpos

\* a tensor of a group above 0 has been copied back
C5_Witness == \E c \in h2dlog : c.tag[1] >= 1

\* C6: when the device-to-host copy of a tensor captured in group g is
\* enqueued, the d2h stream waits for all the compute issued up to the forward
\* commit of g.
C6_ComputePrecedesEviction ==
    \A i \in 1..Len(hostmem) :
        /\ DictHas(group_end, hostmem[i].tag[1])
        /\ hostmem[i].seen["cs"] >= DictGet(group_end, hostmem[i].tag[1])

\* a tensor of a group above 0 has been evicted
C6_Witness ==
    \E i \in 1..Len(hostmem) :
        hostmem[i].tag[1] >= 1 /\ DictGet(group_end, hostmem[i].tag[1]) >= 2

\* C7: no two tensor_push calls of a session return equal tags.
C7_TagUniqueness ==
    \A i, j \in 1..Len(pushed) : i # j => pushed[i].tag # pushed[j].tag

\* C8: after the L-th forward commit current_group is L and
\* offloaded_group_count is G; after the L-th backward commit both are 0.
C8_CounterEndpoints ==
    Running =>
        /\ (n_forward = args.model_layers /\ n_backward = 0) =>
               current_group = num_layers /\ offloaded_group_count = num_offload_group
        /\ n_backward = args.model_layers =>
               current_group = 0 /\ offloaded_group_count = 0

\* a session of two or more layers that evicted something has ended
C8_Witness ==
    /\ Running /\ n_backward = args.model_layers /\ args.model_layers >= 2
    /\ Len(hostmem) >= 1

\* C9: with enabled = FALSE, whatever is called on what the factory returned,
\* the group counters stay 0, no stream waits for another and nothing fails.
C9_DisabledIsIdentity ==
    (~args.enabled /\ context # "none") =>
        /\ current_group = 0 /\ offloaded_group_count = 0
        /\ \A s \in Streams : \A t \in Streams : vc[s][t] = 0
        /\ err = "none"

\* C10: a plain tensor without the activation_offloading marker is the source
\* of no host buffer, and the pop of its tag returns the object pushed.
C10_UnmarkedPassthrough ==
    \A i \in 1..Len(pushed) :
        (pushed[i].tensor.k = "t" /\ ~mem[pushed[i].tensor.id].ao) =>
            /\ \A j \in 1..Len(hostmem) : hostmem[j].src # pushed[i].tensor.id
            /\ \A p \in popped :
                   p.tag = pushed[i].tag => p.tensor = pushed[i].tensor

\* an unmarked tensor saved in a group whose marked tensors were evicted has
\* been popped
C10_Witness ==
    \E i \in 1..Len(pushed) :
        /\ pushed[i].tensor.k = "t" /\ ~mem[pushed[i].tensor.id].ao
        /\ Unpacked(pushed[i].tag)
        /\ \E tensor_tag \in HostTags : tensor_tag[1] = pushed[i].group

\* the pushes that were given a stray (symbolic) tensor
StrayPushes == {i \in 1..Len(pushed) : pushed[i].tensor.k = "fake"}

\* the tag, the bookkeeping and the slot of every stray push: the tag is
\* (-1, n) with n not used by an earlier stray push, the tag is in no map but
\* the slot map, and while the slot is live it holds the object itself
StrayBookkeeping ==
    \A i \in StrayPushes :
        /\ pushed[i].tag[1] = 0 - 1
        /\ \A j \in StrayPushes : j < i => pushed[j].tag[2] < pushed[i].tag[2]
        /\ ~DictHas(tensor_tag_to_buf, pushed[i].tag)
        /\ ~DictHas(fp8_tensor_object_map, pushed[i].tag)
        /\ ~DictHas(float8_transpose_cache_valid, pushed[i].tag)
        /\ ~ListHas(dereferencing_list, pushed[i].tag)
        /\ pushed[i].tag \notin HostTags
        /\ \A c \in h2dlog : c.tag # pushed[i].tag
        /\ \A half \in 1..2 : \A b \in 1..Len(reload_double_buffer[half]) :
               reload_double_buffer[half][b] # pushed[i].tensor
        /\ (DictHas(tensor_tag_to_state, pushed[i].tag) /\ Running) =>
               DictGet(tensor_tag_to_state, pushed[i].tag) = pushed[i].tensor
        /\ \A p \in popped : p.tag = pushed[i].tag => p.tensor = pushed[i].tensor

\* C11: a stray tensor gets a tag (-1, n) with n never used before, enters no
\* map but the slot map and no reload buffer, its slot is touched by no bulk
\* offload or reload, and the object tensor_pop returns is the one that was
\* pushed, with no attribute changed.
C11_StrayPassthrough ==
    /\ StrayBookkeeping
    /\ \A i \in 1..Len(fake) : fake[i] = [do_not_clear |-> FALSE]

\* C12: is_cpu_offload_enabled() is false while no hook scope is entered
\* (before the first entry and after every exit, normal or by exception) and
\* true from entry until exit; the (on_save, on_get) pair is registered exactly
\* while the scope is entered.
C12_ScopedHookLifecycle ==
    context = "hook" =>
        /\ scope_depth = 0 =>
              ~IsCpuOffloadEnabled /\ ~inside_context /\ saved_tensors_hooks = <<>>
        /\ scope_depth > 0 =>
              IsCpuOffloadEnabled /\ inside_context /\ saved_tensors_hooks = <<HookPair>>

\* a hook scope in which a tensor was saved has been left by an exception
C12_Witness ==
    /\ context = "hook" /\ scope_depth = 0 /\ err = "Exception"
    /\ Len(pushed) > 0
    /\ ~IsCpuOffloadEnabled /\ saved_tensors_hooks = <<>>

\* C13: get_cpu_offload_context called with offload_activations and
\* offload_weights both false raises the configuration error (ValueError),
\* whatever enabled, num_layers, model_layers and double_buffering are, and has
\* constructed no handler and returned nothing.
C13_NothingToOffload ==
    (~args.offload_activations /\ ~args.offload_weights) =>
        /\ err = "ValueError"
        /\ ~handler_constructed
        /\ context = "none" /\ synchronizer = "none"

\* the call with nothing to offload, enabled, double buffering on and more
\* groups than layers has raised
C13_Witness ==
    /\ ~args.offload_activations /\ ~args.offload_weights
    /\ args.enabled /\ args.double_buffering /\ args.num_layers > args.model_layers
    /\ err = "ValueError" /\ ~handler_constructed

C15_TooManyGroupsRejected ==
    (args.offload_activations /\ args.num_layers > args.model_layers) =>
        err = "ValueError" /\ ~handler_constructed

\* C16: whenever the hook scope is left normally, either the slot map, the
\* buffer-reference map and the composite map are all empty, or the exit
\* raises an error.
C16_LeakDetection ==
    [][(scope_depth' < scope_depth /\ context = "hook" /\ err = "none") =>
          \/ err' # "none"
          \/ /\ tensor_tag_to_state = <<>>
             /\ tensor_tag_to_buf = <<>>
             /\ fp8_tensor_object_map = <<>>]_vars

\* the calls of mark_activation_offload that returned
MarkCalls == {k \in 1..Len(marks) : marks[k].err = "none"}

\* tensor i was an argument of a call that returned
MarkedDirectly(i) ==
    \E k \in MarkCalls : \E j \in 1..Len(marks[k].tensors) :
        marks[k].tensors[j] = Ref("t", i)

\* tensor i is a data tensor of a composite that was an argument of a call
\* that returned
MarkedAsDataTensor(i) ==
    \E k \in MarkCalls : \E j \in 1..Len(marks[k].tensors) :
        /\ marks[k].tensors[j].k = "q"
        /\ LET data_tensors == GetDataTensors(World, marks[k].tensors[j].id)
           IN  \E d \in 1..Len(data_tensors) : data_tensors[d] = Ref("t", i)

\* C17: with the debug state off mark_activation_offload returns for every
\* argument list, None included; a tensor carries activation_offloading exactly
\* if it was a plain argument or is a data tensor (get_data_tensors) of a
\* composite argument, and carries needs_force_clear exactly in the second case.
C17_MarkingContract ==
    /\ \A k \in 1..Len(marks) : ~marks[k].debug => marks[k].err = "none"
    /\ \A i \in 1..Len(mem) :
          /\ mem[i].ao = (MarkedDirectly(i) \/ MarkedAsDataTensor(i))
          /\ mem[i].nfc = MarkedAsDataTensor(i)

\* mark_activation_offload(None, c) has returned for a composite c with a
\* None data field: its data tensor is marked, its scale tensor is not
C17_Witness ==
    \E k \in MarkCalls :
        /\ Len(marks[k].tensors) = 2
        /\ marks[k].tensors[1] = None /\ marks[k].tensors[2].k = "q"
        /\ LET f == comp[marks[k].tensors[2].id].f
           IN  /\ \E i \in 1..Len(f) : f[i] = None
               /\ \E i \in 1..Len(f) : f[i].k = "t" /\ mem[f[i].id].nfc
               /\ \E i \in 1..Len(f) : f[i].k = "t" /\ ~mem[f[i].id].ao

\* C18: a call of mark_activation_offload made in debug mode raises
\* (RuntimeError), and it marks nothing: as long as no call has returned, no
\* tensor carries activation_offloading or needs_force_clear.
C18_DebugModeRaises ==
    /\ \A k \in 1..Len(marks) : marks[k].debug => marks[k].err = "RuntimeError"
    /\ MarkCalls = {} => \A i \in 1..Len(mem) : ~mem[i].ao /\ ~mem[i].nfc

\* in debug mode a call with a plain tensor and a composite has raised
C18_Witness ==
    \E k \in 1..Len(marks) :
        /\ marks[k].debug /\ marks[k].err = "RuntimeError"
        /\ Len(marks[k].tensors) = 2
        /\ marks[k].tensors[1].k = "t" /\ marks[k].tensors[2].k = "q"
        /\ \A i \in 1..Len(mem) : ~mem[i].ao /\ ~mem[i].nfc

\* scenario S5: L = 2, G = 2, one composite saved in group 0 and the same
\* instance saved again in group 1
ScenarioS5 ==
    /\ args.model_layers = 2 /\ args.num_layers = 2
    /\ Len(pushed) = 2
    /\ pushed[1].tensor.k = "q" /\ pushed[2].tensor = pushed[1].tensor
    /\ pushed[1].group = 0 /\ pushed[2].group = 1

\* C19: in scenario S5 with the pops in reverse order of the pushes, the tag
\* popped first (that of group 1) is the one whose processing performs the
\* single restore, so the composite it returns has been restored once, and the
\* tag popped second (that of group 0) is the one that takes the dedup skip.
C19_RestoreOrderS5 ==
    ScenarioS5 =>
        /\ \A p \in popped : p.nrestore = 1
        /\ \A i \in 1..Len(dereferencing_list) :
              dereferencing_list[i] = pushed[1].tag

\* the handler state a failed call must leave as it was
HandlerState ==
    <<current_group, offloaded_group_count, tensor_tag_to_state, tensor_tag_to_buf,
      fp8_tensor_object_map>>

\* C20: a call of tensor_pop or of on_group_commit_backward that fails its
\* contract check (AssertionError) leaves current_group,
\* offloaded_group_count, the slot map, the buffer-reference map and the
\* composite map as they were before the call.
C20_FailureAtomicity ==
    [][(err = "none" /\ err' = "AssertionError" /\ pushed' = pushed
            /\ n_forward' = n_forward) =>
          UNCHANGED HandlerState]_vars

\* C21: MXFP8TensorBase.prepare_for_saving returns the four fields in the order
\* rowwise data, columnwise data, rowwise scale, columnwise scale and leaves
\* all four fields None; restore_from_saved given that list followed by extra
\* elements attaches the same four objects again and returns exactly the extra
\* elements, in order.
C21_PrepareRestoreRoundTrip ==
    \A k \in 1..Len(saves) :
        /\ saves[k].tensors = saves[k].fields
        /\ Len(saves[k].tensors) = MXFP8Fields
        /\ saves[k].detached = <<None, None, None, None>>
        /\ saves[k].restored =>
              /\ saves[k].attached = saves[k].fields
              /\ saves[k].returned = saves[k].extra
        /\ ~saves[k].restored => comp[saves[k].c].f = saves[k].detached

\* a composite with only the columnwise fields went through prepare and a
\* restore that was given two extra elements, a tensor and None
C21_Witness ==
    \E k \in 1..Len(saves) :
        /\ saves[k].restored
        /\ saves[k].fields[1] = None /\ saves[k].fields[2].k = "t"
        /\ Len(saves[k].extra) = 2
        /\ saves[k].extra[1].k = "t" /\ saves[k].extra[2] = None
        /\ saves[k].returned = saves[k].extra
        /\ comp[saves[k].c].f = saves[k].fields

\* C22: whenever the forward synchronization has released the device-buffer
\* reference of an offload-eligible tensor (its tensor_tag_to_buf entry is
\* None), the device-to-host copy of that tensor has been enqueued before.
C22_ReleaseOnlyAfterEviction ==
    n_backward = 0 =>
        \A i \in 1..Len(pushed) :
            (/\ pushed[i].tensor.k = "t"
             /\ mem[pushed[i].tensor.id].ao
             /\ DictHas(tensor_tag_to_buf, pushed[i].tag)
             /\ DictGet(tensor_tag_to_buf, pushed[i].tag) = None)
            => pushed[i].tag \in HostTags

\* the groups with a live tag whose slot is the device tensor r, or a composite
\* one of whose fields is r
GroupsBackedBy(r) ==
    {tensor_tag_to_state[j].tag[1] :
        j \in {i \in 1..Len(tensor_tag_to_state) :
                 LET v == tensor_tag_to_state[i].v
                 IN  \/ v = r
                     \/ /\ v.k = "q"
                        /\ \E f \in 1..Len(comp[v.id].f) : comp[v.id].f[f] = r}}

\* C23: with double buffering, a reload buffer never backs the reloaded tensors
\* of two groups whose tags are still to be popped: bulk_reload_group does not
\* write a group into a buffer that a not yet popped tag of another group uses.
C23_DoubleBufferExclusivity ==
    \A half \in 1..2 : \A b \in 1..Len(reload_double_buffer[half]) :
        reload_double_buffer[half][b].k = "t" =>
            Cardinality(GroupsBackedBy(reload_double_buffer[half][b])) <= 1

\* C24: with double buffering, no access reload_double_buffer[g % 2][buffer_idx]
\* made by bulk_reload_group is out of the range of the pool: no backward
\* commit ends with IndexError.
C24_ReloadBufferIndexInRange ==
    double_buffering => err # "IndexError"

\* C25: whenever tensor_pop returns a composite, restore_from_saved has been
\* applied to it since its last prepare_for_saving: the composite handed back
\* has its underlying buffers attached, wherever prepare_for_saving detached
\* one at the first push; this holds for a tag of the dedup list too.
C25_PoppedCompositeUsable ==
    \A p \in popped :
        p.tensor.k = "q" =>
            \A i \in 1..Len(p.fields) :
                FirstPushOf(p.tensor).fields[i] # NoneVal => p.fields[i] # NoneVal

\* every buffer reference of a group whose window boundary has passed is None
ReleasedReferences ==
    \A i \in 1..Len(tensor_tag_to_buf) :
        tensor_tag_to_buf[i].tag[1] < offloaded_group_count =>
            tensor_tag_to_buf[i].v = None

\* C26: after the forward commit at a window boundary every
\* tensor_tag_to_buf entry of the group is None, and every evicted tensor of
\* the group that carries needs_force_clear, the data tensors of a composite
\* included, has an empty storage.
C26_ReleaseAtWindowBoundary ==
    n_backward = 0 =>
        /\ ReleasedReferences
        /\ \A j \in 1..Len(hostmem) :
              (/\ hostmem[j].tag[1] < offloaded_group_count
               /\ mem[hostmem[j].src].nfc)
              => mem[hostmem[j].src].size = Empty

\* C27: for every 1 <= num_offload_group <= num_layers the window plan has
\* exactly the keys 0..num_offload_group-1, is strictly increasing, has every
\* value in 0..num_layers-1 and ends with num_layers-1; no commit modifies it.
C27_WindowPlanShape ==
    /\ [](/\ Len(layer_window_map) = num_offload_group
          /\ \A i \in 1..Len(layer_window_map) :
                /\ layer_window_map[i] \in 0..(num_layers - 1)
                /\ \A j \in 1..Len(layer_window_map) :
                      i < j => layer_window_map[i] < layer_window_map[j]
          /\ layer_window_map[num_offload_group] = num_layers - 1)
    /\ [][layer_window_map' = layer_window_map]_vars

\* a plan with a remainder, after the whole session
C27_Witness ==
    /\ num_offload_group = 3 /\ num_layers = 5
    /\ n_backward = num_layers

\* the length of window i: the layers after the end of window i-1 up to its own
WindowLength(i) ==
    layer_window_map[i + 1] - (IF i = 0 THEN -1 ELSE layer_window_map[i])

\* C28: layer_window_map[i] = floor(L/G)*(i+1) - 1 + min(i+1, L mod G) for
\* every 0 <= i < G; the first (L mod G) windows have floor(L/G)+1 layers, the
\* others floor(L/G), so two windows differ by at most one layer.
C28_WindowPlanBalance ==
    LET G == num_offload_group
        L == num_layers
        r == L % G
    IN  /\ Len(layer_window_map) = G
        /\ \A i \in 0..(G - 1) :
              /\ layer_window_map[i + 1] =
                    ((L \div G) * (i + 1)) - 1 + (IF i + 1 < r THEN i + 1 ELSE r)
              /\ WindowLength(i) = (IF i < r THEN (L \div G) + 1 ELSE L \div G)
        /\ \A i, j \in 0..(G - 1) :
              WindowLength(i) - WindowLength(j) \in {-1, 0, 1}

\* a plan whose first windows are stretched and whose last ones are not
C28_Witness ==
    /\ num_offload_group = 4 /\ num_layers = 6
    /\ WindowLength(0) = 2 /\ WindowLength(3) = 1
    /\ n_forward >= 1

\* C29: offloaded_group_count never decreases across a forward commit, never
\* increases across a backward commit, stays within 0..num_offload_group, and
\* is 0 once a backward commit has brought current_group to 0.
C29_OffloadedGroupCountMonotone ==
    /\ [](offloaded_group_count \in 0..num_offload_group)
    /\ [][/\ n_forward' > n_forward =>
                offloaded_group_count' >= offloaded_group_count
          /\ n_backward' > n_backward =>
                offloaded_group_count' <= offloaded_group_count]_vars
    /\ []((n_backward >= 1 /\ current_group = 0 /\ Running) =>
              offloaded_group_count = 0)

\* the count went up to num_offload_group > 1 in the forward pass and the
\* backward pass has brought it back to 0
C29_Witness ==
    /\ num_offload_group >= 2
    /\ n_forward = num_layers /\ n_backward = num_layers
    /\ current_group = 0 /\ Running
    /\ offloaded_group_count = 0

\* the tags pushed and still in tensor_tag_to_state, by what was pushed
LiveSlots(composite) ==
    {i \in 1..Len(tensor_tag_to_state) :
        \E j \in 1..Len(pushed) :
            /\ pushed[j].tag = tensor_tag_to_state[i].tag
            /\ (pushed[j].tensor.k = "q") = composite}

C31_MisuseAsserts ==
    [][last_call'.n > last_call.n =>
        /\ (last_call'.name = "on_group_commit_backward" /\ current_group = 0)
              => err' = "AssertionError"
        /\ (last_call'.name = "tensor_pop"
              /\ ~DictHas(tensor_tag_to_state, last_call'.arg))
              => err' = "AssertionError"
        /\ (last_call'.name = "tensor_push"
              /\ DictHas(tensor_tag_to_state,
                         <<current_group, tensor_count_current_group>>))
              => err' = "AssertionError"]_vars

\* the synchronous handler has refused a push whose tag is still in use
C31_Witness ==
    /\ handler_class = "Synchronized"
    /\ last_call.name = "tensor_push"
    /\ err = "AssertionError"
    /\ DictHas(tensor_tag_to_state, <<current_group, tensor_count_current_group - 1>>)

\* C36: the synchronous tensor_push evicts the tensor to the host at once if
\* and only if current_group < num_offload_group and the predicate accepts the
\* tensor, and stores the tensor itself otherwise; tensor_pop removes the slot
\* and returns a reloaded copy of an evicted tensor, and the stored object
\* itself otherwise.
C36_SynchronousPushPop ==
    [][(handler_class = "Synchronized" /\ last_call'.n > last_call.n
          /\ err' = "none") =>
        /\ last_call'.name = "tensor_push" =>
              LET tensor == last_call'.arg
                  slot == DictGet(tensor_tag_to_state', ret')
                  evict == /\ current_group < num_offload_group
                           /\ TensorNeedOffloadingChecker(
                                [tensor_need_offloading_checker |->
                                     tensor_need_offloading_checker,
                                 mem |-> mem'], tensor)
              IN  /\ ret' = <<current_group, tensor_count_current_group>>
                  /\ evict <=> slot.k = "tuple"
                  /\ evict =>
                        /\ Len(hostmem') = Len(hostmem) + 1
                        /\ slot.id = Len(hostmem')
                        /\ hostmem'[slot.id].src = tensor.id
                        /\ hostmem'[slot.id].val = mem'[tensor.id].val
                  /\ ~evict => slot = tensor /\ hostmem' = hostmem
        /\ last_call'.name = "tensor_pop" =>
              LET slot == DictGet(tensor_tag_to_state, last_call'.arg)
              IN  /\ ~DictHas(tensor_tag_to_state', last_call'.arg)
                  /\ IF slot.k = "tuple"
                     THEN /\ ret' = Ref("t", Len(mem) + 1)
                          /\ Len(mem') = Len(mem) + 1
                          /\ mem'[ret'.id].val = hostmem[slot.id].val
                          /\ mem'[ret'.id].size = hostmem[slot.id].size
                     ELSE ret' = slot /\ mem' = mem]_vars

\* the synchronous handler has returned a reloaded copy of a tensor it evicted
\* and holds a tensor it stored as it was
C36_Witness ==
    /\ handler_class = "Synchronized" /\ Running
    /\ last_call.name = "tensor_pop"
    /\ ret.k = "t" /\ ret.id = Len(mem) /\ Len(hostmem) >= 1
    /\ mem[ret.id].val = hostmem[1].val
    /\ \E i \in 1..Len(tensor_tag_to_state) : tensor_tag_to_state[i].v.k = "t"

\* C37: reload given a destination buffer of another size than the host
\* buffer raises AssertionError and copies nothing; given one of the same
\* size it copies into it and returns that object; given none it returns a
\* newly allocated tensor with the host buffer's contents.
C37_ReloadDestination ==
    [][(last_call'.n > last_call.n /\ last_call'.name = "reload") =>
        LET cpu_backup == hostmem[last_call'.arg.state.id]
            \* what a copy enqueued on the current stream reads from it
            contents == ReadHost(World, "cs", last_call'.arg.state.id)
            copy_buffer == last_call'.arg.copy_buffer
        IN  IF copy_buffer = None
            THEN /\ err' = "none"
                 /\ Len(mem') = Len(mem) + 1
                 /\ ret' = Ref("t", Len(mem'))
                 /\ mem'[ret'.id].val = contents
                 /\ mem'[ret'.id].size = cpu_backup.size
                 /\ \A j \in 1..Len(mem) : mem'[j] = mem[j]
            ELSE IF mem[copy_buffer.id].size # cpu_backup.size
            THEN err' = "AssertionError" /\ mem' = mem /\ h2dlog' = h2dlog
            ELSE /\ err' = "none"
                 /\ ret' = copy_buffer
                 /\ Len(mem') = Len(mem)
                 /\ mem'[copy_buffer.id].val = contents
                 /\ \A j \in 1..Len(mem) : j # copy_buffer.id => mem'[j] = mem[j]]_vars

\* a reload into a buffer of the host buffer's size has overwritten it
C37_Witness ==
    /\ last_call.name = "reload" /\ Running
    /\ last_call.arg.copy_buffer # None
    /\ ret = last_call.arg.copy_buffer
    /\ mem[ret.id].val = hostmem[last_call.arg.state.id].val
    /\ mem[ret.id].size = DataSize
    /\ hostmem[last_call.arg.state.id].src # ret.id

\* what the handler's predicate answers for the device tensor id
Accepts(id) == TensorNeedOffloadingChecker(World, Ref("t", id))

\* the predicate of a handler constructed without one accepts a tensor if and
\* only if it carries activation_offloading
C38_DefaultPredicateIsMarker ==
    tensor_need_offloading_checker = "default" =>
        \A id \in 1..Len(mem) : Accepts(id) <=> mem[id].ao

\* C38: the predicate get_cpu_offload_context gives its handler accepts a
\* tensor if and only if it carries activation_offloading; the predicate of a
\* handler constructed without one accepts every tensor.
C38_PredicateByConstruction ==
    \A id \in 1..Len(mem) :
        IF tensor_need_offloading_checker = "activations"
        THEN Accepts(id) <=> mem[id].ao
        ELSE Accepts(id)

\* a synchronous handler constructed without a predicate has evicted a tensor
\* that is not marked
C38_Witness ==
    /\ handler_class = "Synchronized" /\ tensor_need_offloading_checker = "default"
    /\ \E i \in 1..Len(tensor_tag_to_state) :
          /\ tensor_tag_to_state[i].v.k = "tuple"
          /\ ~mem[hostmem[tensor_tag_to_state[i].v.id].src].ao

\* C39: every lookup layer_window_map[offloaded_group_count] of a forward
\* commit and layer_window_map[offloaded_group_count - 1] of a backward commit
\* finds its key, whatever the sequence of commits.
C39_WindowLookupInDomain ==
    [][(handler_class = "Async" /\ last_call'.n > last_call.n
          /\ last_call'.name \in {"on_group_commit_forward",
                                  "on_group_commit_backward"})
        => err' # "KeyError"]_vars

\* C32: is_cpu_offload_enabled() returns True whenever a with-block of the hook
\* context has been entered and not yet left, also after an inner with-block
\* has been left while an outer one is still open.
C32_FlagUnderNestedScopes ==
    (context = "hook" /\ scope_depth >= 1) => IsCpuOffloadEnabled

\* a complete session: every layer committed forward and backward, every tag
\* popped
SessionComplete ==
    /\ Running
    /\ n_forward = args.model_layers /\ n_backward = args.model_layers
    /\ \A i \in 1..Len(pushed) : Unpacked(pushed[i].tag)

\* C33: after a complete session current_group and offloaded_group_count are 0
\* and tensor_tag_to_state, tensor_tag_to_buf, fp8_tensor_object_map,
\* float8_transpose_cache_valid and dereferencing_list are empty.
C33_SessionReuse ==
    SessionComplete =>
        /\ current_group = 0 /\ offloaded_group_count = 0
        /\ tensor_tag_to_state = <<>>
        /\ tensor_tag_to_buf = <<>>
        /\ fp8_tensor_object_map = <<>>
        /\ float8_transpose_cache_valid = <<>>
        /\ dereferencing_list = <<>>

\* C34: in the backward pass bulk_reload_group is called once for each group
\* 0..num_offload_group-1, in the order num_offload_group-1, ..., 0, and for
\* no other group: the calls made so far are the first ones of that order, none
\* is made in the forward pass, and all are made when the backward pass is over.
C34_EachGroupReloadedOnce ==
    /\ \A k \in 1..Len(reload_calls) : reload_calls[k] = num_offload_group - k
    /\ n_backward = 0 => reload_calls = <<>>
    /\ (Running /\ n_backward = args.model_layers) =>
          Len(reload_calls) = num_offload_group

\* a backward pass that reloaded three groups is over
C34_Witness ==
    /\ Running /\ n_backward = args.model_layers
    /\ reload_calls = <<2, 1, 0>>
    /\ h2dlog # {}

\* C35: the window-match step of on_group_commit_backward decrements
\* offloaded_group_count only while it is greater than 1: during the backward
\* pass it is at least 1 while current_group > 0, it still reads 1 after group
\* 0 has been reloaded, and it is 0 once current_group has reached 0.
C35_StickyFloor ==
    (Running /\ n_backward >= 1) =>
        /\ current_group > 0 => offloaded_group_count >= 1
        /\ (current_group > 0 /\ \E k \in 1..Len(reload_calls) : reload_calls[k] = 0)
              => offloaded_group_count = 1
        /\ current_group = 0 => offloaded_group_count = 0

\* group 0 has been reloaded, the backward pass is not over and the count is 1
C35_Witness ==
    /\ Running /\ current_group > 0
    /\ Len(reload_calls) >= 1 /\ reload_calls[Len(reload_calls)] = 0
    /\ offloaded_group_count = 1
    /\ \E c \in h2dlog : c.tag[1] = 0

====
